---- MODULE Spec2Model ----
(***************************************************************************)
(* A model of the paginated extraction, caching and deduplication code of  *)
(* the Punk Brewery pipeline.                                              *)
(*                                                                         *)
(*   - the two page collectors: PunkAPIExtractor._extract_async            *)
(*     (src/src/extract/punk_api_extractor.py) and                         *)
(*     FullDatasetLoader.extract_all_breweries (src/load_full_dataset.py)  *)
(*   - the request fingerprint EnhancedAPIService._get_cache_key and the   *)
(*     memory cache of EnhancedAPIService._make_request                    *)
(*     (src/enhanced_api_service.py)                                       *)
(*   - the file cache LocalCacheService (src/local_cache_service.py)       *)
(*   - remove_duplicates() over the staging table, and the loads that fill *)
(*     the table (src/remove_duplicates.py, src/load_full_dataset.py,      *)
(*     src/load_south_korea.py)                                            *)
(*   - MultiAPIExtractor.extract_with_fallback                             *)
(*     (src/src/extract/multi_api_extractor.py)                            *)
(*   - one PunkAPIExtractor._fetch_page_with_retry call on its own         *)
(*   - EnhancedAPIService._rate_limit called by the request threads of     *)
(*     the server (src/production_server.py), step by step                 *)
(*   - LocalCacheService.set running beside get, step by step              *)
(*   - LocalCacheService.get running beside invalidate and clear_all,      *)
(*     step by step                                                        *)
(*   - the searches of EnhancedAPIService beside the files of              *)
(*     LocalCacheService, and LocalCacheService after initialize_cache()   *)
(*   - the adapters that normalize a batch of raw records                  *)
(*     (src/src/transform/beer_transformer.py, multi_api_extractor.py,     *)
(*     src/load_full_dataset.py, src/load_south_korea.py)                  *)
(*   - the callers of the upstream random endpoint                         *)
(*     (EnhancedAPIService, IntegratedBreweryPlatform, PunkAPIExtractor)   *)
(*     and EnhancedAPIService.health_check                                 *)
(*   - BigQueryLoader.load_to_bigquery                                     *)
(*     (src/src/load/bigquery_loader.py)                                   *)
(*                                                                         *)
(* Every component has its own specification (SpecCollect, ...); the       *)
(* variables of the other components keep their initial value under it.    *)
(***************************************************************************)
EXTENDS Integers, Sequences, FiniteSets, TLC

VARIABLES
    \* ---- the upstream source one collection run talks to (a test double)
    mode,          \* "paged": honest finite source; "stuck": ignores ?page=
    total,         \* number of records the source holds (ids 1..total)
    failing,       \* pages whose every request fails
    \* ---- one collection run
    collector,     \* "punk" (PunkAPIExtractor) or "full" (FullDatasetLoader)
    page_size,     \* per_page of the run (page_size / self.batch_size)
    pc,            \* "idle", "loop" (inside while True), "done" (returned)
    page,          \* the local variable page
    collected,     \* all_beers / all_breweries
    requests,      \* page numbers requested so far, in request order
    total_count,   \* FullDatasetLoader: the value get_total_count() returned
    last_event,    \* the last thing the while loop did: "request", "wait"
    back_to_back,  \* some request of the loop followed another without a wait
    \* ---- one evaluation of EnhancedAPIService._get_cache_key on two mappings
    k_endpoint,    \* the endpoint
    k_params1,     \* a parameter mapping, as its items in insertion order
    k_params2,     \* another parameter mapping
    k_keys,        \* <<>> before, <<key of params1, key of params2>> after
    \* ---- the cache services (EnhancedAPIService, LocalCacheService)
    svc,           \* the service a behaviour exercises: "api" or "local"
    now,           \* time.time(), in ticks of 1/TicksPerSecond second
    advances,      \* number of clock advances between operations so far
    calls,         \* number of service operations so far
    cache,         \* EnhancedAPIService.cache: fingerprint -> entry
    last_request_time,  \* EnhancedAPIService.last_request_time
    files,         \* LocalCacheService: cache key -> the file <key>.json
    prev,          \* the operation before the last one
    last,          \* the last operation of the service and what it returned
    \* ---- the warehouse and remove_duplicates()
    staging,       \* the table staging_beers: [exists, rows]
    temp,          \* the table staging_beers_temp: [exists, rows]
    loaded,        \* number of rows the load jobs have written so far
    rd_pc,         \* position of remove_duplicates(): the next query to run
    before_count,  \* remove_duplicates: before_count
    before_rows,   \* the rows of staging_beers when the last run started
    \* ---- one MultiAPIExtractor.extract_with_fallback call and its upstreams
    fb_limit,      \* the argument limit
    punk_probe,    \* status the Punk API answers the connectivity probe with
    punk_answer,   \* what the Punk API answers GET /beers with
    ob_probe,      \* status Open Brewery DB answers the probe with
    ob_answer,     \* what Open Brewery DB answers GET /breweries with
    fb_pc,         \* "idle", "done" (returned) or "raised"
    fb_calls,      \* the HTTP requests the call issued, in order
    fb_result,     \* the list the call returned
    \* ---- one PunkAPIExtractor._fetch_page_with_retry call
    r_statuses,    \* the status each attempt is answered with, if it is made
    r_body,        \* the JSON body of a 200 answer
    r_pc,          \* "idle" or "done" (returned or raised)
    r_out,         \* what the call did: [data, calls, sleeps, waits, raised]
    \* ---- the threads that call EnhancedAPIService._rate_limit (they share
    \*      now and last_request_time with the cache services above)
    callers,       \* the caller threads
    rl_pc,         \* thread -> "idle", "check", "sleeping", "store"
    current_time,  \* thread -> the local current_time
    time_since_last,  \* thread -> the local time_since_last
    wake_at,       \* thread -> the time its last time.sleep() ends
    acquired,      \* thread -> number of _rate_limit calls it has finished
    returns,       \* the times at which _rate_limit returned, in order
    \* ---- a LocalCacheService.set call that runs beside other calls (it
    \*      shares files, now, prev and last with the cache services above)
    writing,       \* the set call under way: [key, cache_data], or NoWrite
    \* ---- a LocalCacheService.get call that runs beside invalidate and
    \*      clear_all calls of other threads (it shares files, now, advances
    \*      and calls with the cache services above)
    g_pc,          \* "idle", "stat", "open", "done" (returned), "raised"
    g_key,         \* the argument cache_key of the get call
    g_result,      \* what the get call returned
    \* ---- one batch of raw records handed to one adapter
    b_adapter,     \* the adapter: "beer_transformer", "multi_punk", ...
    b_raw,         \* the raw records of the batch, in order
    b_pc,          \* "idle", "done" (returned) or "raised"
    b_out,         \* the normalized records the adapter returned
    \* ---- the callers of the upstream /random endpoint, and health_check
    rnd_caller,    \* "enhanced", "health", "integrated" or "punk"
    rnd_log,       \* the calls made so far, one record each, in order
    \* ---- BigQueryLoader: the bucket, the warehouse tables and the runs
    bq_runs,       \* load_to_bigquery calls made so far
    bq_bucket,     \* the staging files in the Cloud Storage bucket (run numbers)
    bq_tables,     \* _ensure_tables_exist has run: the tables were touched
    bq_staged,     \* the run whose file the staging table holds, 0 if none
    bq_merged,     \* the runs merged into the production tables
    bq_last        \* the last call: batch size, failing step, outcome

collectVars == <<mode, total, failing, collector, page_size, pc, page,
                 collected, requests, total_count, last_event, back_to_back>>

keyVars == <<k_endpoint, k_params1, k_params2, k_keys>>

cacheVars == <<svc, now, advances, calls, cache, last_request_time, files,
               prev, last>>

dedupVars == <<staging, temp, loaded, rd_pc, before_count, before_rows>>

fallbackVars == <<fb_limit, punk_probe, punk_answer, ob_probe, ob_answer,
                  fb_pc, fb_calls, fb_result>>

retryVars == <<r_statuses, r_body, r_pc, r_out>>

limiterVars == <<callers, rl_pc, current_time, time_since_last, wake_at,
                 acquired, returns>>

writerVars == <<writing>>

readerVars == <<g_pc, g_key, g_result>>

batchVars == <<b_adapter, b_raw, b_pc, b_out>>

randomVars == <<rnd_caller, rnd_log>>

loaderVars ==
    <<bq_runs, bq_bucket, bq_tables, bq_staged, bq_merged, bq_last>>

vars == <<collectVars, keyVars, cacheVars, dedupVars, fallbackVars,
         retryVars, limiterVars, writerVars, readerVars, batchVars,
         randomVars, loaderVars>>

\* what the actions of one component leave alone: the other components
otherThanCollect == <<keyVars, cacheVars, dedupVars, fallbackVars, retryVars,
    limiterVars, writerVars, readerVars, batchVars, randomVars, loaderVars>>
otherThanKey == <<collectVars, cacheVars, dedupVars, fallbackVars, retryVars,
    limiterVars, writerVars, readerVars, batchVars, randomVars, loaderVars>>
otherThanCache == <<collectVars, keyVars, dedupVars, fallbackVars, retryVars,
    limiterVars, writerVars, readerVars, batchVars, randomVars, loaderVars>>
otherThanDedup == <<collectVars, keyVars, cacheVars, fallbackVars, retryVars,
    limiterVars, writerVars, readerVars, batchVars, randomVars, loaderVars>>
otherThanFallback == <<collectVars, keyVars, cacheVars, dedupVars, retryVars,
    limiterVars, writerVars, readerVars, batchVars, randomVars, loaderVars>>
otherThanRetry == <<collectVars, keyVars, cacheVars, dedupVars, fallbackVars,
    limiterVars, writerVars, readerVars, batchVars, randomVars, loaderVars>>
\* (the rate limiter steps change now and last_request_time of cacheVars)
otherThanLimiter == <<collectVars, keyVars, dedupVars, fallbackVars,
    retryVars, writerVars, readerVars, batchVars, randomVars, loaderVars>>
\* (the steps of a set call change files, now, prev and last of cacheVars)
otherThanWriter == <<collectVars, keyVars, dedupVars, fallbackVars,
    retryVars, limiterVars, readerVars, batchVars, randomVars, loaderVars>>
\* (the steps of a get call and the calls beside it change files, now,
\* advances and calls of cacheVars)
otherThanReader == <<collectVars, keyVars, dedupVars, fallbackVars,
    retryVars, limiterVars, writerVars, batchVars, randomVars, loaderVars>>
otherThanBatch == <<collectVars, keyVars, cacheVars, dedupVars, fallbackVars,
    retryVars, limiterVars, writerVars, readerVars, randomVars, loaderVars>>
\* (get_random_brewery and health_check of EnhancedAPIService change cache,
\* now and last_request_time of cacheVars)
otherThanRandom == <<collectVars, keyVars, dedupVars, fallbackVars,
    retryVars, limiterVars, writerVars, readerVars, batchVars, loaderVars>>
otherThanLoader == <<collectVars, keyVars, cacheVars, dedupVars,
    fallbackVars, retryVars, limiterVars, writerVars, readerVars, batchVars,
    randomVars>>

----------------------------------------------------------------------------
(* Program constants *)

\* load_full_dataset.py: "if page > 50" (lines 82 and 90)
MaxPages == 50
\* config_manager.py default 'retry_attempts': 3
retry_attempts == 3
\* load_full_dataset.py: self.total_expected = 8408
total_expected == 8408

(* Bounds of the model *)

\* page sizes 1..MaxPerPage stand for per_page (80 and 200 in the code)
MaxPerPage == 2
\* always-failing pages are drawn from 1..MaxFailPage
MaxFailPage == 3
\* the Punk collector has no page ceiling: the model stops following a run
\* that is about to request a page beyond MaxPunkPage
MaxPunkPage == 53

----------------------------------------------------------------------------
(* Helpers *)

Min(a, b) == IF a < b THEN a ELSE b
Max(a, b) == IF a > b THEN a ELSE b
CeilDiv(a, b) == (a + b - 1) \div b
Range(s) == {s[i] : i \in DOMAIN s}

\* HTTP status of one answer; 0 stands for a network exception or a timeout
StatusSet == {200, 429, 500, 404, 0}
FailStatuses == StatusSet \ {200}

----------------------------------------------------------------------------
(* The upstream source *)

\* the records an honest source serves for ?page=p&per_page=page_size
PageRecords(p) ==
    LET lo == (p - 1) * page_size + 1
        hi == Min(p * page_size, total)
    IN  [i \in 1..Max(0, hi - lo + 1) |-> lo + i - 1]

\* the JSON body of a 200 answer for page p
Answer(p) ==
    IF mode = "paged" THEN PageRecords(p)
    ELSE [i \in 1..page_size |-> i]

\* the statuses one request for page p can be answered with
Statuses(p) ==
    IF mode = "paged"
    THEN (IF p \in failing THEN FailStatuses ELSE {200})
    ELSE StatusSet

\* the statuses of the successive attempts for page p
AttemptStatuses(p) == [1..retry_attempts -> Statuses(p)]

----------------------------------------------------------------------------
(* PunkAPIExtractor *)

\* 2 ** attempt
RECURSIVE Pow2(_)
Pow2(k) == IF k = 0 THEN 1 ELSE 2 * Pow2(k - 1)

\* "except asyncio.TimeoutError" and "except Exception" (lines 168-171): an
\* attempt that raises (status 0) is caught; the variant lets it propagate
ExceptCatchesNothing(status) == FALSE
ExceptCatches(status) == TRUE

\* "if response.status == 200" (line 158); the variant takes no answer for
\* a success
status_never_ok(status) == FALSE
status_ok(status) == status = 200

\* a call that made no attempt
NoFetch ==
    [data |-> <<>>, calls |-> 0, sleeps |-> <<>>, waits |-> <<>>,
     raised |-> FALSE]

\* _fetch_page_with_retry: the for loop from attempt (0-based) on.
\* calls: requests issued; sleeps: the asyncio.sleep arguments, in order;
\* waits: for every failed attempt, the seconds slept after it in total;
\* raised: the call ended with an exception.
RECURSIVE FetchFrom(_, _, _)
FetchFrom(attempt, statuses, body) ==
    IF attempt >= retry_attempts
    THEN NoFetch
    ELSE IF status_ok(statuses[attempt + 1])
    THEN [NoFetch EXCEPT !.data = body, !.calls = 1]
    ELSE IF statuses[attempt + 1] = 0 /\ ~ExceptCatches(0)
    THEN [NoFetch EXCEPT !.calls = 1, !.raised = TRUE]
    ELSE LET rest == FetchFrom(attempt + 1, statuses, body)
             s429 == IF statuses[attempt + 1] = 429
                     THEN <<Pow2(attempt)>> ELSE <<>>
             sRetry == IF attempt < retry_attempts - 1
                       THEN <<Pow2(attempt)>> ELSE <<>>
             slept == (IF s429 = <<>> THEN 0 ELSE s429[1])
                          + (IF sRetry = <<>> THEN 0 ELSE sRetry[1])
         IN  [data |-> rest.data,
              calls |-> rest.calls + 1,
              sleeps |-> s429 \o sRetry \o rest.sleeps,
              waits |-> <<slept>> \o rest.waits,
              raised |-> rest.raised]

fetch_page_with_retry(statuses, body) == FetchFrom(0, statuses, body)

\* "if len(page_data) < page_size" (line 137); the variant compares with <=
PunkLastPageLE(n, size) == n <= size
PunkLastPage(n, size) == n < size

\* all_beers.extend(page_data)
PunkExtend(acc, data) == acc \o data

PunkStart ==
    /\ collector = "punk"
    /\ pc = "idle"
    /\ pc' = "loop"
    /\ page' = 1
    /\ collected' = <<>>
    /\ UNCHANGED <<mode, total, failing, collector, page_size, requests,
                   total_count, last_event, back_to_back>>
    /\ UNCHANGED otherThanCollect

\* config_manager.py default 'rate_limit_delay': 1.0 (seconds)
rate_limit_delay == 1

\* the last thing _fetch_page_with_retry did: its last request, or the sleep
\* that follows a last attempt answered 429
fetch_last_event(out) ==
    IF out.calls > Len(out.waits) THEN "request"
    ELSE IF out.waits # <<>> /\ out.waits[Len(out.waits)] > 0 THEN "wait"
    ELSE "request"

\* one iteration of "while True" (lines 110-144)
PunkIterate(statuses) ==
    /\ collector = "punk"
    /\ pc = "loop"
    /\ page <= MaxPunkPage
    /\ LET out == fetch_page_with_retry(statuses, Answer(page))
           page_data == out.data
       IN  /\ requests' = Append(requests, page)
           /\ back_to_back' = (back_to_back \/ last_event = "request")
           /\ IF page_data = <<>>
              THEN /\ pc' = "done"
                   /\ last_event' = fetch_last_event(out)
                   /\ UNCHANGED <<page, collected>>
              ELSE /\ collected' = PunkExtend(collected, page_data)
                   /\ IF PunkLastPage(Len(page_data), page_size)
                      THEN /\ pc' = "done"
                           /\ last_event' = fetch_last_event(out)
                           /\ UNCHANGED page
                      ELSE /\ page' = page + 1
                           /\ last_event' = IF rate_limit_delay > 0 THEN "wait"
                                            ELSE fetch_last_event(out)
                           /\ UNCHANGED pc
    /\ UNCHANGED <<mode, total, failing, collector, page_size, total_count>>
    /\ UNCHANGED otherThanCollect

----------------------------------------------------------------------------
(* FullDatasetLoader *)

\* get_total_count(): the meta total, or total_expected when the request fails
get_total_count(ok) == IF ok THEN total ELSE total_expected

\* "if len(breweries) < self.batch_size" (line 75)
FullLastPage(n, size) == n < size

\* all_breweries.extend(breweries); the variants assign instead of
\* extending, or put the page in front
FullExtendAssign(acc, data) == data
FullExtendFront(acc, data) == data \o acc
FullExtend(acc, data) == acc \o data

\* after a full page: page += 1, then the safety check (lines 79-84)
FullAdvance(p) ==
    [page |-> p + 1, pc |-> IF p + 1 > MaxPages THEN "done" ELSE "loop"]

\* the except branch: page += 1, break past the ceiling, else continue.
\* Variants: one that leaves the loop on the first error, one without the
\* ceiling check.
FullExceptAbort(p) == [page |-> p, pc |-> "done"]
FullExceptNoCeiling(p) == [page |-> p + 1, pc |-> "loop"]
FullExcept(p) ==
    [page |-> p + 1, pc |-> IF p + 1 > MaxPages THEN "done" ELSE "loop"]

FullStart(metaOk) ==
    /\ collector = "full"
    /\ pc = "idle"
    /\ pc' = "loop"
    /\ page' = 1
    /\ collected' = <<>>
    /\ total_count' = get_total_count(metaOk)
    /\ UNCHANGED <<mode, total, failing, collector, page_size, requests,
                   last_event, back_to_back>>
    /\ UNCHANGED otherThanCollect

\* one iteration of "while True" (lines 50-92); time.sleep(0.5) follows a
\* page that is not empty, nothing follows a request that raised
FullIterate(status) ==
    /\ collector = "full"
    /\ pc = "loop"
    /\ requests' = Append(requests, page)
    /\ back_to_back' = (back_to_back \/ last_event = "request")
    /\ IF status = 200
       THEN LET breweries == Answer(page)
            IN  IF breweries = <<>>
                THEN /\ pc' = "done"
                     /\ last_event' = "request"
                     /\ UNCHANGED <<page, collected>>
                ELSE /\ collected' = FullExtend(collected, breweries)
                     /\ last_event' = "wait"
                     /\ IF FullLastPage(Len(breweries), page_size)
                        THEN /\ pc' = "done"
                             /\ UNCHANGED page
                        ELSE /\ page' = FullAdvance(page).page
                             /\ pc' = FullAdvance(page).pc
       ELSE /\ page' = FullExcept(page).page
            /\ pc' = FullExcept(page).pc
            /\ last_event' = "request"
            /\ UNCHANGED collected
    /\ UNCHANGED <<mode, total, failing, collector, page_size, total_count>>
    /\ UNCHANGED otherThanCollect

----------------------------------------------------------------------------
(* Specification of one collection run *)

\* an operation record of a cache service (see prev, last)
NoOp ==
    [op |-> "none", args |-> <<>>, key |-> "", at |-> 0, had |-> FALSE,
     ts |-> 0, hit |-> FALSE, net |-> 0, ok |-> FALSE, result |-> <<>>]

\* the cache services are not part of this specification
CacheIdle ==
    /\ svc = "none"
    /\ now = 0
    /\ advances = 0
    /\ calls = 0
    /\ cache = <<>>
    /\ last_request_time = 0
    /\ files = <<>>
    /\ prev = NoOp
    /\ last = NoOp

\* a table that does not exist
NoTable == [exists |-> FALSE, rows |-> {}]

\* the warehouse is not part of this specification
DedupIdle ==
    /\ staging = NoTable
    /\ temp = NoTable
    /\ loaded = 0
    /\ rd_pc = "idle"
    /\ before_count = 0
    /\ before_rows = {}

\* the fingerprint evaluation is not part of this specification
KeyIdle ==
    /\ k_endpoint = ""
    /\ k_params1 = <<>>
    /\ k_params2 = <<>>
    /\ k_keys = <<>>

\* no answer of an upstream
NoAnswer == [ok |-> FALSE, body |-> <<>>]

\* extract_with_fallback is not part of this specification
FallbackIdle ==
    /\ fb_limit = 0
    /\ punk_probe = 0
    /\ punk_answer = NoAnswer
    /\ ob_probe = 0
    /\ ob_answer = NoAnswer
    /\ fb_pc = "idle"
    /\ fb_calls = <<>>
    /\ fb_result = <<>>

\* _fetch_page_with_retry on its own is not part of this specification
RetryIdle ==
    /\ r_statuses = <<>>
    /\ r_body = <<>>
    /\ r_pc = "idle"
    /\ r_out = NoFetch

\* no thread calls _rate_limit in this specification
LimiterIdle ==
    /\ callers = {}
    /\ rl_pc = <<>>
    /\ current_time = <<>>
    /\ time_since_last = <<>>
    /\ wake_at = <<>>
    /\ acquired = <<>>
    /\ returns = <<>>

\* no set call is under way
NoWrite == [key |-> "", cache_data |-> <<>>]

WriterIdle == writing = NoWrite

\* no get call runs step by step in this specification
ReaderIdle ==
    /\ g_pc = "idle"
    /\ g_key = ""
    /\ g_result = <<>>

\* no batch is normalized in this specification
BatchIdle ==
    /\ b_adapter = ""
    /\ b_raw = <<>>
    /\ b_pc = "idle"
    /\ b_out = <<>>

\* the /random endpoint is not called in this specification
RandomIdle ==
    /\ rnd_caller = ""
    /\ rnd_log = <<>>

\* the last load_to_bigquery call, none so far
NoLoad == [batch |-> 0, fail |-> "none", uploaded |-> FALSE, outcome |-> "none"]

\* BigQueryLoader is not part of this specification
LoaderIdle ==
    /\ bq_runs = 0
    /\ bq_bucket = {}
    /\ bq_tables = FALSE
    /\ bq_staged = 0
    /\ bq_merged = {}
    /\ bq_last = NoLoad

InitCollect ==
    /\ LoaderIdle
    /\ RandomIdle
    /\ BatchIdle
    /\ ReaderIdle
    /\ WriterIdle
    /\ LimiterIdle
    /\ RetryIdle
    /\ FallbackIdle
    /\ KeyIdle
    /\ CacheIdle
    /\ DedupIdle
    /\ collector \in {"punk", "full"}
    /\ page_size \in 1..MaxPerPage
    /\ mode \in {"paged", "stuck"}
    /\ failing \in SUBSET (1..MaxFailPage)
    /\ mode = "stuck" => failing = {}
    /\ total \in 0..((MaxPages + 1) * page_size)
    /\ mode = "stuck" => total = page_size
    /\ failing # {} => total <= (MaxFailPage + 2) * page_size
    /\ pc = "idle"
    /\ page = 0
    /\ collected = <<>>
    /\ requests = <<>>
    /\ total_count = 0
    /\ last_event = "none"
    /\ back_to_back = FALSE

NextCollect ==
    \/ PunkStart
    \/ \E statuses \in AttemptStatuses(page) : PunkIterate(statuses)
    \/ \E metaOk \in BOOLEAN : FullStart(metaOk)
    \/ \E status \in Statuses(page) : FullIterate(status)

SpecCollect == InitCollect /\ [][NextCollect]_vars

----------------------------------------------------------------------------
(* Claims about the collectors *)

\* a run against an honest source in which no request fails
NoFailure == mode = "paged" /\ failing = {}

\* a 5-page source whose page 3 always fails and whose other pages succeed
FivePagesThirdFails ==
    /\ mode = "paged"
    /\ failing = {3}
    /\ CeilDiv(total, page_size) = 5

PagesOneTwoFourFive ==
    PageRecords(1) \o PageRecords(2) \o PageRecords(4) \o PageRecords(5)

\* C1: FullDatasetLoader.extract_all_breweries, against a 5-page source
\* whose page 3 always fails, returns exactly the records of pages 1, 2, 4
\* and 5 in that order; the result is not empty.
C1_FullSkipsFailedPage ==
    (collector = "full" /\ FivePagesThirdFails /\ pc = "done")
        => /\ collected = PagesOneTwoFourFive
           /\ collected # <<>>

C1_Witness ==
    /\ collector = "full"
    /\ FivePagesThirdFails
    /\ pc = "done"
    /\ 3 \in Range(requests)
    /\ 5 \in Range(requests)

\* C2: when one page of PunkAPIExtractor._extract_async fails definitively
\* (every attempt fails), the pages after it are still requested and their
\* records are in the returned list.
C2_PunkAdvancesPastFailedPage ==
    (collector = "punk" /\ FivePagesThirdFails /\ pc = "done")
        => /\ {4, 5} \subseteq Range(requests)
           /\ collected = PagesOneTwoFourFive

\* C3 as stated: with no failing request and N within the page ceiling, a
\* run issues exactly ceil(N / per_page) page requests.
C3_CeilRequests ==
    (NoFailure /\ total <= MaxPages * page_size /\ pc = "done")
        => Len(requests) = CeilDiv(total, page_size)

\* C3 amended: with no failing request and N within the page ceiling, a run
\* issues floor(N / per_page) + 1 page requests (the last one finds the short
\* or empty page), except that FullDatasetLoader never issues more than its
\* 50-page ceiling.
C3_FloorPlusOneRequests ==
    (NoFailure /\ total <= MaxPages * page_size /\ pc = "done")
        => Len(requests) =
              IF collector = "full"
              THEN Min((total \div page_size) + 1, MaxPages)
              ELSE (total \div page_size) + 1

C3_Witness ==
    /\ NoFailure
    /\ pc = "done"
    /\ total = 2 * page_size
    /\ page_size > 1
    /\ Len(requests) = 3

\* C4: with no failing request and N within the page ceiling, a run returns
\* exactly the N records of the source, each once, in source order.
C4_ReturnsAllRecordsInOrder ==
    (NoFailure /\ total <= MaxPages * page_size /\ pc = "done")
        => collected = [i \in 1..total |-> i]

C4_Witness ==
    /\ NoFailure
    /\ collector = "full"
    /\ pc = "done"
    /\ total = MaxPages * page_size
    /\ Len(collected) = total

\* C5: FullDatasetLoader.extract_all_breweries issues at most 50 page
\* requests in one run, whatever the upstream answers, and has returned once
\* the 50th is handled.
C5_FullAtMostFiftyRequests ==
    collector = "full"
        => /\ Len(requests) <= MaxPages
           /\ (Len(requests) = MaxPages => pc = "done")

C5_Witness ==
    /\ collector = "full"
    /\ mode = "stuck"
    /\ pc = "done"
    /\ Len(requests) = MaxPages
    /\ Len(collected) > 0
    /\ Len(collected) < (MaxPages - 1) * page_size

\* C6: PunkAPIExtractor._extract_async stops at a hard page-count ceiling
\* when the source answers every page with a full page.
C6_PunkStopsAtCeiling ==
    (collector = "punk" /\ mode = "stuck") => Len(requests) <= MaxPages

\* C25: within one collection run the page numbers requested are strictly
\* ascending and start from 1, and the records are appended in the order
\* their pages were requested: a step appends the answer of the page it has
\* just requested to the end of the list, or leaves the list alone.
C25_PagesAscendingRecordsInOrder ==
    [][/\ \/ requests' = requests
          \/ /\ Len(requests') = Len(requests) + 1
             /\ SubSeq(requests', 1, Len(requests)) = requests
             /\ IF requests = <<>>
                THEN requests'[1] = 1
                ELSE requests'[Len(requests')] > requests[Len(requests)]
       /\ \/ collected' = collected
          \/ /\ Len(requests') = Len(requests) + 1
             /\ collected' = collected \o Answer(requests'[Len(requests')])
      ]_vars

C25_Witness ==
    /\ collector = "full"
    /\ mode = "paged"
    /\ failing = {2}
    /\ page_size = 2
    /\ pc = "done"
    /\ requests = <<1, 2, 3, 4>>
    /\ collected = <<1, 2, 5, 6, 7>>

\* C19: every outbound network attempt is preceded by its own rate-limit
\* wait: no page request of a collection run follows the previous network
\* attempt without a wait between them.
C19_EveryAttemptPaced == ~back_to_back

\* how often the run requested page p
TimesRequested(p) == Cardinality({i \in DOMAIN requests : requests[i] = p})

\* C35: when a page request fails after the client's own retries are
\* exhausted, the collector requests that same page exactly once more before
\* giving up on it, and the run then returns what it has accumulated.
C35_FailedPageRequestedOnceMore ==
    pc = "done"
        => \A p \in failing :
              p \in Range(requests) => TimesRequested(p) = 2

----------------------------------------------------------------------------
(* EnhancedAPIService._get_cache_key *)

\* The parameter names the service uses, in the order Python's sorted() puts
\* them (string comparison of the keys).
ParamNames == <<"by_city", "per_page", "query">>
KeyRank(k) == CHOOSE i \in DOMAIN ParamNames : ParamNames[i] = k

\* A parameter value is an int or a str.
IntVal(i) == [t |-> "int", i |-> i]
StrVal(x) == [t |-> "str", s |-> x]

\* f"{v}"
Format(v) == IF v.t = "int" THEN ToString(v.i) ELSE v.s

\* sorted(params.items()): the items <<k, v>> by ascending key
RECURSIVE InsertItem(_, _)
InsertItem(item, sortedItems) ==
    IF sortedItems = <<>> THEN <<item>>
    ELSE IF KeyRank(item[1]) <= KeyRank(Head(sortedItems)[1])
    THEN <<item>> \o sortedItems
    ELSE <<Head(sortedItems)>> \o InsertItem(item, Tail(sortedItems))

RECURSIVE SortedItemsOf(_)
SortedItemsOf(items) ==
    IF items = <<>> THEN <<>>
    ELSE InsertItem(Head(items), SortedItemsOf(Tail(items)))

\* the variant takes params.items() in insertion order
UnsortedItems(items) == items
SortedItems(items) == SortedItemsOf(items)

\* sep.join(strs)
RECURSIVE Join(_, _)
Join(sep, strs) ==
    IF strs = <<>> THEN ""
    ELSE IF Len(strs) = 1 THEN strs[1]
    ELSE strs[1] \o sep \o Join(sep, Tail(strs))

\* _get_cache_key(endpoint, params); params = <<>> is the empty mapping or None
get_cache_key(endpoint, params) ==
    IF params # <<>>
    THEN LET items == SortedItems(params)
             param_str == Join("&", [i \in DOMAIN items |->
                               items[i][1] \o "=" \o Format(items[i][2])])
         IN  endpoint \o "?" \o param_str
    ELSE endpoint

----------------------------------------------------------------------------
(* Specification of one fingerprint evaluation *)

\* at most MaxParams parameters in a mapping
MaxParams == 3

Endpoints == {"", "/search"}

ParamValues(k) ==
    CASE k = "per_page" -> {IntVal(5), IntVal(50)}
      [] k = "query" -> {StrVal("stone"), StrVal("5")}
      [] OTHER -> {StrVal("austin")}

ParamItems == UNION {{<<ParamNames[i], v>> : v \in ParamValues(ParamNames[i])} :
                        i \in DOMAIN ParamNames}

\* the mappings: item sequences without a repeated key (a dict has none)
ParamMappings ==
    {p \in UNION {[1..n -> ParamItems] : n \in 0..Min(MaxParams, Len(ParamNames))} :
        \A i, j \in DOMAIN p : i # j => p[i][1] # p[j][1]}

\* the collectors are not part of this specification
CollectIdle ==
    /\ mode = "paged"
    /\ total = 0
    /\ failing = {}
    /\ collector = "none"
    /\ page_size = 1
    /\ pc = "idle"
    /\ page = 0
    /\ collected = <<>>
    /\ requests = <<>>
    /\ total_count = 0
    /\ last_event = "none"
    /\ back_to_back = FALSE

InitKey ==
    /\ LoaderIdle
    /\ RandomIdle
    /\ BatchIdle
    /\ ReaderIdle
    /\ WriterIdle
    /\ LimiterIdle
    /\ RetryIdle
    /\ FallbackIdle
    /\ CollectIdle
    /\ CacheIdle
    /\ DedupIdle
    /\ k_endpoint \in Endpoints
    /\ k_params1 \in ParamMappings
    /\ k_params2 \in ParamMappings
    /\ k_keys = <<>>

ComputeKeys ==
    /\ k_keys = <<>>
    /\ k_keys' = <<get_cache_key(k_endpoint, k_params1),
                   get_cache_key(k_endpoint, k_params2)>>
    /\ UNCHANGED <<k_endpoint, k_params1, k_params2>>
    /\ UNCHANGED otherThanKey

NextKey == ComputeKeys

SpecKey == InitKey /\ [][NextKey]_vars

\* C9: for every endpoint and every two parameter mappings that hold the
\* same key/value pairs, _get_cache_key returns the same fingerprint whatever
\* the insertion order of the parameters.
C9_FingerprintOrderIndependent ==
    (k_keys # <<>> /\ Range(k_params1) = Range(k_params2))
        => k_keys[1] = k_keys[2]

C9_Witness ==
    /\ k_keys # <<>>
    /\ Range(k_params1) = Range(k_params2)
    /\ k_params1 # k_params2
    /\ Len(k_params1) = 3
    /\ k_keys[1] = k_keys[2]

----------------------------------------------------------------------------
(* The cache services: the clock *)

\* The clock counts ticks of half a min_request_interval (0.05 s), so that a
\* caller can find a part of the interval elapsed.
TicksPerSecond == 20
\* enhanced_api_service.py: self.min_request_interval = 0.1, in ticks
min_request_interval == 2
\* enhanced_api_service.py: self.cache_ttl = 300 (seconds)
cache_ttl == 300

(* Bounds *)

\* clock advances between the operations of one behaviour
MaxAdvances == 2
\* service operations of one behaviour
MaxCalls == 2

Put(f, k, v) == [x \in (DOMAIN f) \cup {k} |-> IF x = k THEN v ELSE f[x]]
\* (the variant removes every file)
DropEvery(f, k) == <<>>
Drop(f, k) == [x \in (DOMAIN f) \ {k} |-> f[x]]

\* local_cache_service.py: self.cache_ttl and the default of
\* self.cache_ttl.get(cache_key, 3600), in seconds
LocalTTL(cache_key) ==
    CASE cache_key = "analytics_summary" -> 3600
      [] cache_key = "brewery_analytics" -> 1800
      [] cache_key = "system_status" -> 300
      [] cache_key = "geographic_data" -> 7200
      [] OTHER -> 3600

LocalKeys == {"system_status", "analytics_summary"}

\* the clock moves by one tick, or to one tick before a TTL has elapsed
TickSteps ==
    {1} \cup (IF svc = "api" THEN {cache_ttl * TicksPerSecond - 1}
              ELSE {LocalTTL(k) * TicksPerSecond - 1 : k \in LocalKeys})

Tick(d) ==
    /\ svc \in {"api", "local"}
    /\ advances < MaxAdvances
    /\ calls < MaxCalls
    /\ advances' = advances + 1
    /\ now' = now + d
    /\ UNCHANGED <<svc, calls, cache, last_request_time, files, prev, last>>
    /\ UNCHANGED otherThanCache

----------------------------------------------------------------------------
(* EnhancedAPIService *)

\* _is_cache_valid(cache_entry) at time t; the variant compares with <=
is_cache_valid_LE(cache_entry, t) ==
    (t - cache_entry.timestamp) <= cache_ttl * TicksPerSecond
is_cache_valid(cache_entry, t) ==
    (t - cache_entry.timestamp) < cache_ttl * TicksPerSecond

\* "if time_since_last < self.min_request_interval" (line 56); the variant
\* never sleeps
must_sleep_never(since_last) == FALSE
must_sleep(since_last) == since_last < min_request_interval

\* sleep_time = self.min_request_interval - time_since_last (line 57)
sleep_time(since_last) == min_request_interval - since_last

\* _rate_limit() called at time t by the only caller: the time at which it
\* returns, which it stores in last_request_time
rate_limit(t, last_time) ==
    LET since_last == t - last_time
    IN  IF must_sleep(since_last)
        THEN t + sleep_time(since_last)
        ELSE t

\* self.cache[cache_key] = {'data': data, 'timestamp': time.time()}; the
\* variant stores nothing
CacheStoreNothing(c, cache_key, data, t) == c
CacheStore(c, cache_key, data, t) ==
    Put(c, cache_key, [data |-> data, timestamp |-> t])

\* What the upstream does with one request: it answers a JSON body, or the
\* request fails (RequestException: network error, timeout, non-2xx status)
\* or the body is no JSON (JSONDecodeError).
Payloads == {<<>>, <<"b1">>}
NetOutcomes ==
    {[ok |-> TRUE, data |-> d] : d \in Payloads}
        \cup {[ok |-> FALSE, data |-> <<>>]}

\* what the except branches of _make_request do to the cache: nothing; the
\* variant stores the empty list they return
CacheOnErrorStoreEmpty(c, cache_key, t) ==
    Put(c, cache_key, [data |-> <<>>, timestamp |-> t])
CacheOnError(c, cache_key, t) == c

\* "if cache_key in self.cache and self._is_cache_valid(...)" (line 67); the
\* variant serves whatever entry the key has
cache_lookup_any(c, cache_key, t) == cache_key \in DOMAIN c
\* (another variant: the cache is never consulted)
cache_lookup_never(c, cache_key, t) == FALSE
cache_lookup(c, cache_key, t) ==
    cache_key \in DOMAIN c /\ is_cache_valid(c[cache_key], t)

\* _make_request(endpoint, params) at time now: the new cache, clock and
\* last_request_time, and what the call did and returned
make_request(endpoint, params, net) ==
    LET cache_key == get_cache_key(endpoint, params)
        had == cache_key \in DOMAIN cache
        seen == IF had THEN cache[cache_key].timestamp ELSE 0
    IN  IF cache_lookup(cache, cache_key, now)
        THEN [cache |-> cache, now |-> now, lrt |-> last_request_time,
              key |-> cache_key, had |-> had, ts |-> seen,
              hit |-> TRUE, net |-> 0, ok |-> TRUE,
              result |-> cache[cache_key].data]
        ELSE LET t == rate_limit(now, last_request_time)
             IN  IF net.ok
                 THEN [cache |-> CacheStore(cache, cache_key, net.data, t),
                       now |-> t, lrt |-> t,
                       key |-> cache_key, had |-> had, ts |-> seen,
                       hit |-> FALSE, net |-> 1, ok |-> TRUE,
                       result |-> net.data]
                 ELSE [cache |-> CacheOnError(cache, cache_key, t),
                       now |-> t, lrt |-> t,
                       key |-> cache_key, had |-> had, ts |-> seen,
                       hit |-> FALSE, net |-> 1, ok |-> FALSE,
                       result |-> <<>>]

Queries == {"stone", "ipa"}
Limits == {5, 60}

\* search_breweries(query, limit)
search_breweries(query, limit, net) ==
    /\ svc = "api"
    /\ calls < MaxCalls
    /\ LET params == << <<"query", StrVal(query)>>,
                        <<"per_page", IntVal(Min(limit, 50))>> >>
           r == make_request("/search", params, net)
       IN  /\ cache' = r.cache
           /\ now' = r.now
           /\ last_request_time' = r.lrt
           /\ last' = [op |-> "search", args |-> <<query, limit>>,
                       key |-> r.key, at |-> now, had |-> r.had, ts |-> r.ts,
                       hit |-> r.hit, net |-> r.net, ok |-> r.ok,
                       result |-> r.result]
    /\ prev' = last
    /\ calls' = calls + 1
    /\ UNCHANGED <<svc, advances, files>>
    /\ UNCHANGED otherThanCache

\* clear_cache()
clear_cache ==
    /\ svc = "api"
    /\ calls < MaxCalls
    /\ cache' = <<>>
    /\ last' = [NoOp EXCEPT !.op = "clear", !.at = now]
    /\ prev' = last
    /\ calls' = calls + 1
    /\ UNCHANGED <<svc, now, advances, last_request_time, files>>
    /\ UNCHANGED otherThanCache

----------------------------------------------------------------------------
(* LocalCacheService *)

\* what get returns on a miss
None == [none |-> TRUE]

\* _is_cache_valid(cache_key) at time t
local_is_cache_valid(cache_key, t) ==
    IF cache_key \notin DOMAIN files
    THEN FALSE
    ELSE LET file_age == t - files[cache_key].st_mtime
             ttl == LocalTTL(cache_key) * TicksPerSecond
         IN  file_age < ttl

\* get(cache_key); readError: open() or json.load raises
local_get(cache_key, readError) ==
    IF ~local_is_cache_valid(cache_key, now)
    THEN None
    ELSE IF readError \/ ~files[cache_key].complete
    THEN None
    ELSE files[cache_key].content

LocalGet(cache_key, readError) ==
    /\ svc = "local"
    /\ calls < MaxCalls
    /\ LET data == local_get(cache_key, readError)
           had == cache_key \in DOMAIN files /\ files[cache_key].complete
       IN  last' = [op |-> "get", args |-> <<cache_key>>, key |-> cache_key,
                    at |-> now, had |-> had,
                    ts |-> IF had THEN files[cache_key].st_mtime ELSE 0,
                    hit |-> data # None, net |-> 0, ok |-> ~readError,
                    result |-> data]
    /\ prev' = last
    /\ calls' = calls + 1
    /\ UNCHANGED <<svc, now, advances, cache, last_request_time, files>>
    /\ UNCHANGED otherThanCache

\* set(cache_key, data); fault: "none", "open" (open() raises, the file is
\* untouched) or "write" (json.dump raises after open() truncated the file)
LocalSet(cache_key, data, fault) ==
    /\ svc = "local"
    /\ calls < MaxCalls
    /\ LET cache_data == [data |-> data, cached_at |-> now,
                          cache_key |-> cache_key,
                          ttl_seconds |-> LocalTTL(cache_key)]
       IN  files' =
             CASE fault = "none" ->
                    Put(files, cache_key, [st_mtime |-> now, complete |-> TRUE,
                                           content |-> cache_data])
               [] fault = "write" ->
                    Put(files, cache_key, [st_mtime |-> now, complete |-> FALSE,
                                           content |-> None])
               [] OTHER -> files
    /\ last' = [NoOp EXCEPT !.op = "set", !.args = <<cache_key>>,
                            !.key = cache_key, !.at = now,
                            !.ok = (fault = "none")]
    /\ prev' = last
    /\ calls' = calls + 1
    /\ UNCHANGED <<svc, now, advances, cache, last_request_time>>
    /\ UNCHANGED otherThanCache

\* invalidate(cache_key)
LocalInvalidate(cache_key) ==
    /\ svc = "local"
    /\ calls < MaxCalls
    /\ files' = IF cache_key \in DOMAIN files
                THEN Drop(files, cache_key) ELSE files
    /\ last' = [NoOp EXCEPT !.op = "invalidate", !.args = <<cache_key>>,
                            !.key = cache_key, !.at = now, !.ok = TRUE]
    /\ prev' = last
    /\ calls' = calls + 1
    /\ UNCHANGED <<svc, now, advances, cache, last_request_time>>
    /\ UNCHANGED otherThanCache

\* clear_all()
LocalClearAll ==
    /\ svc = "local"
    /\ calls < MaxCalls
    /\ files' = <<>>
    /\ last' = [NoOp EXCEPT !.op = "clear_all", !.at = now, !.ok = TRUE]
    /\ prev' = last
    /\ calls' = calls + 1
    /\ UNCHANGED <<svc, now, advances, cache, last_request_time>>
    /\ UNCHANGED otherThanCache

----------------------------------------------------------------------------
(* Specification of the cache services *)

InitCache ==
    /\ LoaderIdle
    /\ RandomIdle
    /\ BatchIdle
    /\ ReaderIdle
    /\ WriterIdle
    /\ LimiterIdle
    /\ RetryIdle
    /\ FallbackIdle
    /\ CollectIdle
    /\ KeyIdle
    /\ DedupIdle
    /\ svc \in {"api", "local"}
    /\ now = min_request_interval
    /\ advances = 0
    /\ calls = 0
    /\ cache = <<>>
    /\ last_request_time = 0
    /\ files = <<>>
    /\ prev = NoOp
    /\ last = NoOp

NextCache ==
    \/ \E d \in TickSteps : Tick(d)
    \/ \E q \in Queries, l \in Limits, net \in NetOutcomes :
          search_breweries(q, l, net)
    \/ clear_cache
    \/ \E k \in LocalKeys, readError \in BOOLEAN : LocalGet(k, readError)
    \/ \E k \in LocalKeys, d \in Payloads, fault \in {"none", "open", "write"} :
          LocalSet(k, d, fault)
    \/ \E k \in LocalKeys : LocalInvalidate(k)
    \/ LocalClearAll

SpecCache == InitCache /\ [][NextCache]_vars

----------------------------------------------------------------------------
(* Claims about the cache services *)

SameSearchTwice ==
    /\ svc = "api"
    /\ prev.op = "search"
    /\ last.op = "search"
    /\ prev.args = last.args
    /\ last.at - prev.at < cache_ttl * TicksPerSecond

\* C7 as stated: two consecutive search_breweries(query, limit) calls made
\* less than cache_ttl apart issue exactly one live network call in total.
C7_TwoCallsOneNetworkCall ==
    SameSearchTwice => prev.net + last.net = 1

\* C7 amended: when the first of the two calls finds no valid entry and its
\* fetch succeeds, the two calls issue exactly one live network call: the
\* first populates the memory cache and the second is served from it.
C7_SecondCallServedFromCache ==
    (SameSearchTwice /\ ~prev.hit /\ prev.ok)
        => /\ prev.net = 1
           /\ last.net = 0
           /\ last.hit
           /\ last.result = prev.result

C7_Witness ==
    /\ SameSearchTwice
    /\ ~prev.hit
    /\ prev.ok
    /\ last.hit
    /\ last.at > prev.at
    /\ last.args[2] > 50

\* the last _make_request call found an entry younger than cache_ttl
FoundValid ==
    last.had /\ last.at - last.ts < cache_ttl * TicksPerSecond

\* a memory cache entry appears or changes only when a successful fetch of
\* its fingerprint stores the fetched payload with the time of the fetch
StoredBySuccessfulFetch ==
    \A k \in DOMAIN cache' :
        (k \notin DOMAIN cache \/ cache'[k] # cache[k])
            => /\ last'.op = "search"
               /\ last'.key = k
               /\ last'.net = 1
               /\ last'.ok
               /\ cache'[k] = [data |-> last'.result, timestamp |-> now']

\* C32: whatever requests, failures, clear_cache calls and clock advances
\* came before, a payload _make_request returns from its cache is the entry
\* of the same fingerprint, stored by a successful fetch less than cache_ttl
\* earlier, and a network call is issued exactly when there is no such entry.
C32_CacheServesOnlyFreshFetches ==
    /\ []((svc = "api" /\ last.op = "search")
            => /\ last.hit => /\ FoundValid
                              /\ last.key \in DOMAIN cache
                              /\ cache[last.key] = [data |-> last.result,
                                                    timestamp |-> last.ts]
               /\ last.net = (IF FoundValid THEN 0 ELSE 1))
    /\ [][svc = "api" => StoredBySuccessfulFetch]_vars

C32_Witness ==
    /\ svc = "api"
    /\ prev.op = "search"
    /\ prev.net = 1
    /\ prev.ok
    /\ last.op = "search"
    /\ last.key = prev.key
    /\ last.hit
    /\ last.result # <<>>
    /\ last.at - last.ts = cache_ttl * TicksPerSecond - 1

\* the step is a _make_request call whose fetch fails
FailedFetchStep ==
    /\ svc = "api"
    /\ calls' = calls + 1
    /\ last'.op = "search"
    /\ ~last'.ok

\* C33: a fetch that fails in _make_request (request error, non-2xx status,
\* invalid JSON) leaves the memory cache as it was, no entry created and none
\* replaced; the caller gets an empty list, and the next request for the
\* same fingerprint goes to the network again.
C33_FailedFetchLeavesCacheUnchanged ==
    /\ [][FailedFetchStep
            => /\ cache' = cache
               /\ last'.result = <<>>
               /\ last'.net = 1]_vars
    /\ []((svc = "api" /\ prev.op = "search" /\ ~prev.ok
              /\ last.op = "search" /\ last.key = prev.key)
            => (last.net = 1 /\ ~last.hit))

C33_Witness ==
    /\ svc = "api"
    /\ prev.op = "search"
    /\ ~prev.ok
    /\ prev.result = <<>>
    /\ last.op = "search"
    /\ last.key = prev.key
    /\ last.net = 1
    /\ last.ok
    /\ last.at - prev.at < cache_ttl * TicksPerSecond
    /\ DOMAIN cache = {last.key}

\* C8: a cache entry written at time T with TTL t is served as a hit at every
\* time strictly before T + t and is a miss at every time from T + t on, in
\* EnhancedAPIService (memory entry, cache_ttl) and in LocalCacheService
\* (file, the TTL of its key; a read that raises is a miss whatever the age).
C8_TtlBoundary ==
    /\ (svc = "api" /\ last.op = "search" /\ last.had)
          => (last.hit <=> last.at - last.ts < cache_ttl * TicksPerSecond)
    /\ (svc = "local" /\ last.op = "get" /\ last.had /\ last.ok)
          => (last.hit <=>
                last.at - last.ts < LocalTTL(last.key) * TicksPerSecond)

C8_Witness ==
    /\ svc = "local"
    /\ last.op = "get"
    /\ last.had
    /\ last.ok
    /\ last.at - last.ts = LocalTTL(last.key) * TicksPerSecond
    /\ ~last.hit

----------------------------------------------------------------------------
(* The staging table and remove_duplicates() *)

(* Bounds *)

\* rows the load jobs of one behaviour write in total
MaxLoaded == 3
\* processed_at is drawn from 1..MaxStamp
MaxStamp == 2

\* (beer_id, name) of the records that are loaded
DedupKeys == {<<1, "a">>, <<1, "b">>, <<2, "a">>}

\* A loaded record: its key and its processed_at. In the table a row also
\* carries rid, the number of the row in load order, which keeps apart rows
\* that agree in every column the model has.
Records == {[beer_id |-> k[1], name |-> k[2], processed_at |-> t] :
                k \in DedupKeys, t \in 1..MaxStamp}

Batches == UNION {[1..n -> Records] : n \in {1, 2}}

\* the rows a load job writes for a batch, n rows having been loaded before
BatchRows(batch, n) ==
    {[beer_id |-> batch[i].beer_id, name |-> batch[i].name,
      processed_at |-> batch[i].processed_at,
      rid |-> n + i] : i \in DOMAIN batch}

\* client.load_table_from_json(rows, table_id, job_config) with
\* write_disposition WRITE_TRUNCATE or WRITE_APPEND
load_table(t, batch, disposition, n) ==
    IF disposition = "WRITE_TRUNCATE"
    THEN [exists |-> TRUE, rows |-> BatchRows(batch, n)]
    ELSE [exists |-> TRUE, rows |-> t.rows \cup BatchRows(batch, n)]

\* PARTITION BY beer_id, name (and GROUP BY beer_id, name); the variant
\* partitions by beer_id alone
SamePartitionById(r, q) == r.beer_id = q.beer_id
SamePartition(r, q) == r.beer_id = q.beer_id /\ r.name = q.name
Partition(rows, r) == {q \in rows : SamePartition(r, q)}

\* ORDER BY processed_at DESC: q has to come before r; the variant orders
\* ascending
OrderedBeforeAsc(q, r) == q.processed_at < r.processed_at
OrderedBefore(q, r) == q.processed_at > r.processed_at

\* ROW_NUMBER() OVER (PARTITION BY beer_id, name ORDER BY processed_at DESC):
\* every numbering of each partition by 1..n that puts a later processed_at
\* first; rows with equal processed_at are numbered in any order
RowNumberings(rows) ==
    {f \in [rows -> 1..Cardinality(rows)] :
        \A r \in rows :
            /\ f[r] <= Cardinality(Partition(rows, r))
            /\ \A q \in Partition(rows, r) :
                  /\ (q # r => f[q] # f[r])
                  /\ (OrderedBefore(q, r) => f[q] < f[r])}

\* WHERE row_num = 1; the variant keeps the other rows
KeepRowNotFirst(row_num) == row_num > 1
KeepRow(row_num) == row_num = 1

\* the results the deduplicating SELECT of dedup_query can have
DedupOutcomes(rows) ==
    {{r \in rows : KeepRow(f[r])} : f \in RowNumberings(rows)}

\* duplicate_check_query: GROUP BY beer_id, name HAVING COUNT(*) > 1
duplicates_found(rows) ==
    \E r \in rows : Cardinality(Partition(rows, r)) > 1

RdIdle == rd_pc \in {"idle", "done", "failed"}

\* a load job of one of the loaders, between runs of remove_duplicates
Load(batch, disposition) ==
    /\ RdIdle
    /\ loaded + Len(batch) <= MaxLoaded
    /\ staging' = load_table(staging, batch, disposition, loaded)
    /\ loaded' = loaded + Len(batch)
    /\ rd_pc' = "idle"
    /\ before_rows' = {}
    /\ UNCHANGED <<temp, before_count>>
    /\ UNCHANGED otherThanDedup

\* a query of remove_duplicates raises: the run ends in main()'s except
RdFails ==
    /\ rd_pc' = "failed"
    /\ UNCHANGED <<staging, temp, loaded, before_count, before_rows>>

\* duplicate_check_query and the early return (lines 23-45)
RdCheck(fails) ==
    /\ RdIdle
    /\ IF fails \/ ~staging.exists
       THEN RdFails
       ELSE /\ rd_pc' = IF duplicates_found(staging.rows)
                        THEN "count" ELSE "done"
            /\ before_rows' = staging.rows
            /\ UNCHANGED <<staging, temp, loaded, before_count>>
    /\ UNCHANGED otherThanDedup

\* count_query (lines 48-50)
RdCount(fails) ==
    /\ rd_pc = "count"
    /\ IF fails
       THEN RdFails
       ELSE /\ before_count' = Cardinality(staging.rows)
            /\ rd_pc' = "dedup"
            /\ UNCHANGED <<staging, temp, loaded, before_rows>>
    /\ UNCHANGED otherThanDedup

\* dedup_query: CREATE OR REPLACE TABLE temp AS SELECT ... (lines 58-76)
RdDedup(fails) ==
    /\ rd_pc = "dedup"
    /\ IF fails
       THEN RdFails
       ELSE /\ \E out \in DedupOutcomes(staging.rows) :
                  temp' = [exists |-> TRUE, rows |-> out]
            /\ rd_pc' = "drop"
            /\ UNCHANGED <<staging, loaded, before_count, before_rows>>
    /\ UNCHANGED otherThanDedup

\* DROP TABLE staging_beers (lines 81-82)
RdDrop(fails) ==
    /\ rd_pc = "drop"
    /\ IF fails
       THEN RdFails
       ELSE /\ staging' = NoTable
            /\ rd_pc' = "rename"
            /\ UNCHANGED <<temp, loaded, before_count, before_rows>>
    /\ UNCHANGED otherThanDedup

\* CREATE OR REPLACE TABLE staging_beers AS SELECT * FROM temp (lines 84-90)
RdRename(fails) ==
    /\ rd_pc = "rename"
    /\ IF fails
       THEN RdFails
       ELSE /\ staging' = temp
            /\ rd_pc' = "drop_temp"
            /\ UNCHANGED <<temp, loaded, before_count, before_rows>>
    /\ UNCHANGED otherThanDedup

\* DROP TABLE temp (line 93)
RdDropTemp(fails) ==
    /\ rd_pc = "drop_temp"
    /\ IF fails
       THEN RdFails
       ELSE /\ temp' = NoTable
            /\ rd_pc' = "verify"
            /\ UNCHANGED <<staging, loaded, before_count, before_rows>>
    /\ UNCHANGED otherThanDedup

\* the count, the verification and the summary queries (lines 96-136)
RdVerify(fails) ==
    /\ rd_pc = "verify"
    /\ IF fails
       THEN RdFails
       ELSE /\ rd_pc' = "done"
            /\ UNCHANGED <<staging, temp, loaded, before_count, before_rows>>
    /\ UNCHANGED otherThanDedup

InitDedup ==
    /\ LoaderIdle
    /\ RandomIdle
    /\ BatchIdle
    /\ ReaderIdle
    /\ WriterIdle
    /\ LimiterIdle
    /\ RetryIdle
    /\ FallbackIdle
    /\ CollectIdle
    /\ KeyIdle
    /\ CacheIdle
    /\ staging = NoTable
    /\ temp = NoTable
    /\ loaded = 0
    /\ rd_pc = "idle"
    /\ before_count = 0
    /\ before_rows = {}

NextDedup ==
    \/ \E batch \in Batches, d \in {"WRITE_TRUNCATE", "WRITE_APPEND"} :
          Load(batch, d)
    \/ \E fails \in BOOLEAN : RdCheck(fails)
    \/ \E fails \in BOOLEAN : RdCount(fails)
    \/ \E fails \in BOOLEAN : RdDedup(fails)
    \/ \E fails \in BOOLEAN : RdDrop(fails)
    \/ \E fails \in BOOLEAN : RdRename(fails)
    \/ \E fails \in BOOLEAN : RdDropTemp(fails)
    \/ \E fails \in BOOLEAN : RdVerify(fails)

SpecDedup == InitDedup /\ [][NextDedup]_vars

\* C10: deduplication is idempotent: running the deduplicating query on its
\* own output (the temp table it wrote, the staging table a completed run
\* leaves) yields the same records as running it once.
C10_DedupIdempotent ==
    /\ (temp.exists /\ rd_pc \in {"drop", "rename", "drop_temp"})
          => DedupOutcomes(temp.rows) = {temp.rows}
    /\ (staging.exists /\ rd_pc \in {"drop_temp", "verify", "done"})
          => DedupOutcomes(staging.rows) = {staging.rows}

C10_Witness ==
    /\ rd_pc = "done"
    /\ staging.exists
    /\ before_count = 3
    /\ Cardinality(staging.rows) = 2
    /\ DedupOutcomes(staging.rows) = {staging.rows}

\* at most one row of the table for every (beer_id, name)
OnePerKey(rows) == \A r, q \in rows : SamePartition(r, q) => r = q

\* C11: after remove_duplicates completes on a staging table produced by any
\* sequence of WRITE_TRUNCATE and WRITE_APPEND loads, the table holds at most
\* one record per (beer_id, name); the survivors are records the table held
\* before, every key of before has its survivor, and the survivor has the
\* maximum processed_at among the records of its key.
C11_OneSurvivorPerKeyLatest ==
    rd_pc = "done"
        => /\ staging.exists
           /\ OnePerKey(staging.rows)
           /\ staging.rows \subseteq before_rows
           /\ \A r \in before_rows :
                 \E q \in staging.rows :
                    /\ SamePartition(r, q)
                    /\ q.processed_at >= r.processed_at

C11_Witness ==
    /\ rd_pc = "done"
    /\ Cardinality(before_rows) = 3
    /\ Cardinality(staging.rows) = 2
    /\ \E r, q \in before_rows :
          /\ SamePartition(r, q)
          /\ r.processed_at < q.processed_at
          /\ q \in staging.rows
          /\ r \notin staging.rows

\* C29: when several records of one (beer_id, name) share the maximum
\* processed_at, remove_duplicates keeps the one that comes first in input
\* order (first seen wins), so the result is deterministic: no record of the
\* key with the survivor's processed_at was loaded before the survivor.
C29_FirstSeenWins ==
    rd_pc = "done"
        => \A r \in staging.rows :
              \A q \in before_rows :
                 (SamePartition(r, q) /\ q.processed_at = r.processed_at)
                     => r.rid <= q.rid

\* C36: remove_duplicates never leaves the staging table absent or empty of
\* its data: in every state of a run that found the table with records,
\* a run stopped by a failing query included, the staging table exists and
\* holds either the original records or the deduplicated records.
C36_StagingNeverAbsent ==
    before_rows # {}
        => /\ staging.exists
           /\ \/ staging.rows = before_rows
              \/ staging.rows \in DedupOutcomes(before_rows)

\* the DedupKey of a record, and the keys a table holds
DedupKeyOf(r) == <<r.beer_id, r.name>>
KeysOf(rows) == {DedupKeyOf(r) : r \in rows}

\* C37: a completed remove_duplicates loses no logical entity and invents no
\* record: every (beer_id, name) the table held before is in it after, every
\* surviving record is one of the records before, and a table that had no
\* two records of one key is left as it was.
C37_NoEntityLostNoneInvented ==
    rd_pc = "done"
        => /\ staging.exists
           /\ KeysOf(before_rows) \subseteq KeysOf(staging.rows)
           /\ staging.rows \subseteq before_rows
           /\ Cardinality(KeysOf(before_rows)) = Cardinality(before_rows)
                 => staging.rows = before_rows

\* two records of (1, "a") and one of (1, "b"): one of each key survives
C37_Witness ==
    /\ rd_pc = "done"
    /\ Cardinality(before_rows) = 3
    /\ KeysOf(before_rows) = {<<1, "a">>, <<1, "b">>}
    /\ Cardinality(staging.rows) = 2
    /\ KeysOf(staging.rows) = {<<1, "a">>, <<1, "b">>}
    /\ temp = NoTable

----------------------------------------------------------------------------
(* MultiAPIExtractor.extract_with_fallback *)

\* multi_api_extractor.py: min(limit, 80) and min(limit, 200)
punk_max_per_page == 80
openbrewery_max_per_page == 200

(* Bounds *)

\* records in the body of one upstream answer
MaxBody == 2
\* the argument limit is drawn from 1..MaxLimit
MaxLimit == 2

\* beers the Punk API serves: id, name and ingredients.yeast
Beers ==
    {[id |-> 1, name |-> "Punk IPA", yeast |-> "Wyeast 1056 - American Ale"],
     [id |-> 2, name |-> "Pilsen Lager", yeast |-> "Saflager W-34/70"]}

\* breweries Open Brewery DB serves: id, name and brewery_type
Breweries ==
    {[id |-> "b1", name |-> "Stone", brewery_type |-> "micro"],
     [id |-> "b2", name |-> "Anchor", brewery_type |-> "regional"],
     [id |-> "b3", name |-> "Odd", brewery_type |-> "taproom"]}

\* an upstream answers a JSON list, or the request fails
Answers(items) ==
    {[ok |-> TRUE, body |-> b] :
        b \in UNION {[1..n -> items] : n \in 0..MaxBody}}
        \cup {NoAnswer}

\* the list an upstream serves for ?per_page=per_page
Served(answer, per_page) ==
    SubSeq(answer.body, 1, Min(Len(answer.body), per_page))

\* test_api_connectivity(api_name): response.status_code == 200; a request
\* that raises (status 0) gives False; the variant reports every source up
test_api_connectivity_always(status) == TRUE
test_api_connectivity(status) == status = 200

\* str(yeast).lower()
YeastName(yeast) ==
    CASE yeast = "Wyeast 1056 - American Ale" -> "wyeast 1056 - american ale"
      [] yeast = "Saflager W-34/70" -> "saflager w-34/70"
      [] OTHER -> ""

\* 'ale' in yeast_name or 'cerevisiae' in yeast_name / 'lager' in yeast_name
\* or 'pastorianus' in yeast_name
YeastCategory(yeast_name) ==
    CASE yeast_name = "wyeast 1056 - american ale" -> "ale"
      [] yeast_name = "saflager w-34/70" -> "lager"
      [] OTHER -> "other"

\* _transform_punk_beer(beer)
transform_punk_beer(beer) ==
    [beer_id |-> IntVal(beer.id),
     name |-> beer.name,
     category |-> YeastCategory(YeastName(beer.yeast)),
     subcategory |-> YeastName(beer.yeast),
     data_source |-> "punk_api"]

\* category_mapping.get(brewery_type, 'other')
category_mapping(brewery_type) ==
    CASE brewery_type \in {"micro", "nano", "brewpub"} -> "ale"
      [] brewery_type \in {"regional", "large"} -> "lager"
      [] OTHER -> "other"

\* _transform_brewery_to_beer(brewery); the variant tags the record as the
\* primary's
transform_brewery_as_punk(brewery) ==
    [beer_id |-> StrVal("brewery_" \o brewery.id),
     name |-> brewery.name \o " House Beer",
     category |-> category_mapping(brewery.brewery_type),
     subcategory |-> brewery.brewery_type,
     data_source |-> "punk_api"]
transform_brewery_to_beer(brewery) ==
    [beer_id |-> StrVal("brewery_" \o brewery.id),
     name |-> brewery.name \o " House Beer",
     category |-> category_mapping(brewery.brewery_type),
     subcategory |-> brewery.brewery_type,
     data_source |-> "openbrewery_db"]

\* extract_punk_api_data(limit): [] when the request raises
extract_punk_api_data(limit) ==
    IF punk_answer.ok
    THEN LET beers == Served(punk_answer, Min(limit, punk_max_per_page))
         IN  [i \in DOMAIN beers |-> transform_punk_beer(beers[i])]
    ELSE <<>>

\* extract_openbrewery_data(limit): [] when the request raises
extract_openbrewery_data(limit) ==
    IF ob_answer.ok
    THEN LET breweries ==
                 Served(ob_answer, Min(limit, openbrewery_max_per_page))
         IN  [i \in DOMAIN breweries |-> transform_brewery_to_beer(breweries[i])]
    ELSE <<>>

\* "except Exception as e: ... return []" of extract_punk_api_data and
\* extract_openbrewery_data (lines 80-82, 108-110): no exception of the fetch
\* leaves them; the variant lets the exception of a failed request through
extract_reraises(answer) == ~answer.ok
extract_raises(answer) == FALSE

PunkProbeCall == "GET punk /beers/1"
PunkFetchCall == "GET punk /beers"
ObProbeCall == "GET openbrewery /breweries?per_page=1"
ObFetchCall == "GET openbrewery /breweries"

\* extract_with_fallback(limit): the requests it issues and what it returns
extract_with_fallback(limit) ==
    LET punk_up == test_api_connectivity(punk_probe)
        punk_data == extract_punk_api_data(limit)
        ob_up == test_api_connectivity(ob_probe)
        ob_data == extract_openbrewery_data(limit)
    IN  IF punk_up /\ extract_raises(punk_answer)
        THEN [calls |-> <<PunkProbeCall, PunkFetchCall>>, data |-> <<>>,
              raised |-> TRUE]
        ELSE IF punk_up /\ punk_data # <<>>
        THEN [calls |-> <<PunkProbeCall, PunkFetchCall>>, data |-> punk_data,
              raised |-> FALSE]
        ELSE LET first == IF punk_up THEN <<PunkProbeCall, PunkFetchCall>>
                          ELSE <<PunkProbeCall>>
             IN  IF ob_up /\ extract_raises(ob_answer)
                 THEN [calls |-> first \o <<ObProbeCall, ObFetchCall>>,
                       data |-> <<>>, raised |-> TRUE]
                 ELSE IF ob_up /\ ob_data # <<>>
                 THEN [calls |-> first \o <<ObProbeCall, ObFetchCall>>,
                       data |-> ob_data, raised |-> FALSE]
                 ELSE IF ob_up
                 THEN [calls |-> first \o <<ObProbeCall, ObFetchCall>>,
                       data |-> <<>>, raised |-> FALSE]
                 ELSE [calls |-> first \o <<ObProbeCall>>, data |-> <<>>,
                       raised |-> FALSE]

ExtractWithFallback ==
    /\ fb_pc = "idle"
    /\ fb_pc' = IF extract_with_fallback(fb_limit).raised
                THEN "raised" ELSE "done"
    /\ fb_calls' = extract_with_fallback(fb_limit).calls
    /\ fb_result' = extract_with_fallback(fb_limit).data
    /\ UNCHANGED <<fb_limit, punk_probe, punk_answer, ob_probe, ob_answer>>
    /\ UNCHANGED otherThanFallback

InitFallback ==
    /\ LoaderIdle
    /\ RandomIdle
    /\ BatchIdle
    /\ ReaderIdle
    /\ WriterIdle
    /\ LimiterIdle
    /\ RetryIdle
    /\ CollectIdle
    /\ KeyIdle
    /\ CacheIdle
    /\ DedupIdle
    /\ fb_limit \in 1..MaxLimit
    /\ punk_probe \in StatusSet
    /\ punk_answer \in Answers(Beers)
    /\ ob_probe \in StatusSet
    /\ ob_answer \in Answers(Breweries)
    /\ fb_pc = "idle"
    /\ fb_calls = <<>>
    /\ fb_result = <<>>

NextFallback == ExtractWithFallback

SpecFallback == InitFallback /\ [][NextFallback]_vars

\* the primary's probe fails, the secondary is reachable and returns records
PrimaryDownSecondaryServes ==
    /\ punk_probe # 200
    /\ ob_probe = 200
    /\ ob_answer.ok
    /\ ob_answer.body # <<>>

\* C12: when the primary's connectivity probe fails and the secondary is
\* reachable and returns records, extract_with_fallback returns the
\* secondary's records (one per brewery served, in order), every one tagged
\* data_source = 'openbrewery_db', and never fetches from the primary.
C12_FallbackReturnsSecondary ==
    (fb_pc = "done" /\ PrimaryDownSecondaryServes)
        => LET served == Served(ob_answer, fb_limit)
           IN  /\ Len(fb_result) = Len(served)
               /\ \A i \in DOMAIN fb_result :
                     /\ fb_result[i].data_source = "openbrewery_db"
                     /\ fb_result[i].beer_id = StrVal("brewery_" \o served[i].id)
               /\ PunkFetchCall \notin Range(fb_calls)
               /\ ObFetchCall \in Range(fb_calls)

C12_Witness ==
    /\ fb_pc = "done"
    /\ PrimaryDownSecondaryServes
    /\ punk_probe = 500
    /\ punk_answer.ok
    /\ punk_answer.body # <<>>
    /\ Len(fb_result) = 2
    /\ fb_result[1].data_source = "openbrewery_db"
    /\ fb_calls = <<PunkProbeCall, ObProbeCall, ObFetchCall>>

\* a source fails: its probe fails, its fetch raises, or its fetch yields
\* zero records
SourceFails(probe, answer) ==
    \/ probe # 200
    \/ ~answer.ok
    \/ answer.body = <<>>

\* C26: when both sources fail (probe fails, fetch raises, or fetch yields
\* zero records, in any combination), extract_with_fallback returns an empty
\* list and raises no exception.
C26_BothFailReturnsEmpty ==
    (/\ fb_pc # "idle"
     /\ SourceFails(punk_probe, punk_answer)
     /\ SourceFails(ob_probe, ob_answer))
        => /\ fb_pc = "done"
           /\ fb_result = <<>>

\* the primary's fetch raises and the secondary serves an empty list
C26_Witness ==
    /\ fb_pc = "done"
    /\ punk_probe = 200
    /\ ~punk_answer.ok
    /\ ob_probe = 200
    /\ ob_answer.ok
    /\ ob_answer.body = <<>>
    /\ fb_calls = <<PunkProbeCall, PunkFetchCall, ObProbeCall, ObFetchCall>>
    /\ fb_result = <<>>

\* the place of a request among those extract_with_fallback issued, 0 if it
\* was not issued
CallIndex(call) ==
    IF call \in Range(fb_calls)
    THEN CHOOSE i \in DOMAIN fb_calls : fb_calls[i] = call
    ELSE 0

\* the secondary was contacted, by its probe or by its fetch
SecondaryContacted ==
    CallIndex(ObProbeCall) > 0 \/ CallIndex(ObFetchCall) > 0

\* C34: extract_with_fallback contacts the secondary (probe or fetch) only
\* after the primary's probe failed or the primary's fetch yielded zero
\* records; when the primary yields at least one record the result is exactly
\* the primary's records and the secondary is never contacted; and no source
\* is fetched whose probe failed.
C34_SecondaryOnlyAfterPrimaryFailed ==
    fb_pc # "idle"
        => LET primary == extract_punk_api_data(fb_limit)
           IN  /\ SecondaryContacted
                     => /\ \/ punk_probe # 200
                           \/ (CallIndex(PunkFetchCall) > 0 /\ primary = <<>>)
                        /\ CallIndex(PunkProbeCall) = 1
                        /\ CallIndex(ObProbeCall) > CallIndex(PunkProbeCall)
                        /\ CallIndex(ObProbeCall) > CallIndex(PunkFetchCall)
                        /\ CallIndex(ObFetchCall) > 0
                              => CallIndex(ObFetchCall) > CallIndex(ObProbeCall)
               /\ (punk_probe = 200 /\ primary # <<>>)
                     => /\ fb_pc = "done"
                        /\ fb_result = primary
                        /\ ~SecondaryContacted
               /\ CallIndex(PunkFetchCall) > 0 => punk_probe = 200
               /\ CallIndex(ObFetchCall) > 0 => ob_probe = 200

\* the primary serves records while the secondary is up and has records too
C34_Witness ==
    /\ fb_pc = "done"
    /\ punk_probe = 200
    /\ punk_answer.ok
    /\ Len(punk_answer.body) > fb_limit
    /\ ob_probe = 200
    /\ ob_answer.ok
    /\ ob_answer.body # <<>>
    /\ fb_calls = <<PunkProbeCall, PunkFetchCall>>
    /\ Len(fb_result) = fb_limit
    /\ fb_limit > 0
    /\ \A i \in DOMAIN fb_result : fb_result[i].data_source = "punk_api"

----------------------------------------------------------------------------
(* Specification of one _fetch_page_with_retry call *)

\* the bodies a 200 answer can carry: 0..MaxPerPage records
PageBodies == {[i \in 1..n |-> i] : n \in 0..MaxPerPage}

FetchPage ==
    /\ r_pc = "idle"
    /\ r_pc' = "done"
    /\ r_out' = fetch_page_with_retry(r_statuses, r_body)
    /\ UNCHANGED <<r_statuses, r_body>>
    /\ UNCHANGED otherThanRetry

InitRetry ==
    /\ LoaderIdle
    /\ RandomIdle
    /\ BatchIdle
    /\ ReaderIdle
    /\ WriterIdle
    /\ LimiterIdle
    /\ CollectIdle
    /\ KeyIdle
    /\ CacheIdle
    /\ DedupIdle
    /\ FallbackIdle
    /\ r_statuses \in [1..retry_attempts -> StatusSet]
    /\ r_body \in PageBodies
    /\ r_pc = "idle"
    /\ r_out = NoFetch

NextRetry == FetchPage

SpecRetry == InitRetry /\ [][NextRetry]_vars

\* every attempt for the page fails
EveryAttemptFails == \A i \in DOMAIN r_statuses : r_statuses[i] # 200

\* C13: when every attempt for a page fails (HTTP 5xx, 4xx, timeout or any
\* other error), _fetch_page_with_retry issues exactly retry_attempts
\* requests and then returns an empty list; it never raises.
C13_ExhaustsAttemptsReturnsEmpty ==
    /\ (r_pc = "done" /\ EveryAttemptFails)
          => /\ r_out.calls = retry_attempts
             /\ r_out.data = <<>>
    /\ r_pc = "done" => ~r_out.raised

C13_Witness ==
    /\ r_pc = "done"
    /\ r_statuses = <<500, 0, 429>>
    /\ r_body # <<>>
    /\ r_out.calls = 3
    /\ r_out.data = <<>>

\* C14: between failed attempt k (0-based) and the next attempt the client
\* waits exactly 2^k seconds in total, whatever the failure was.
C14_WaitsTwoToTheK ==
    r_pc = "done"
        => \A k \in 0..(r_out.calls - 2) : r_out.waits[k + 1] = Pow2(k)

\* C15: a page request answered with an HTTP 4xx status other than 429 is
\* not retried: one request, no backoff wait, an empty result.
C15_ClientErrorNotRetried ==
    (r_pc = "done" /\ r_statuses[1] = 404)
        => /\ r_out.calls = 1
           /\ r_out.sleeps = <<>>
           /\ r_out.data = <<>>

\* the first attempt that is answered 200
First200 ==
    CHOOSE i \in DOMAIN r_statuses :
        /\ r_statuses[i] = 200
        /\ \A j \in 1..(i - 1) : r_statuses[j] # 200

\* C30: _fetch_page_with_retry returns unchanged the JSON payload of the
\* first attempt answered 200 and issues no further request after it, also
\* when earlier attempts were answered 429 or failed.
C30_ReturnsFirstSuccess ==
    (r_pc = "done" /\ \E i \in DOMAIN r_statuses : r_statuses[i] = 200)
        => /\ r_out.data = r_body
           /\ r_out.calls = First200
           /\ ~r_out.raised

C30_Witness ==
    /\ r_pc = "done"
    /\ r_statuses = <<429, 200, 200>>
    /\ Len(r_body) = MaxPerPage
    /\ r_out.data = r_body
    /\ r_out.calls = 2

\* what the caller gets when the upstream answers the first attempt with an
\* empty list
EmptyAnswerResult ==
    fetch_page_with_retry([i \in 1..retry_attempts |-> 200], <<>>).data

\* C16: a fetch that failed (every attempt failed) is reported to its caller
\* with a value different from that of a successful fetch of zero records.
C16_FailureDistinctFromEmpty ==
    (r_pc = "done" /\ EveryAttemptFails) => r_out.data # EmptyAnswerResult

----------------------------------------------------------------------------
(* EnhancedAPIService._rate_limit called by the threads of the server *)

(* Bounds *)

\* the request threads of the server (app.run(threaded=True))
Threads == {"t1", "t2"}

\* _rate_limit calls of one thread
MaxAcquires == 2
\* the clock stops at MaxClock ticks
MaxClock == 6

\* what a step of _rate_limit leaves alone: the set of threads, the rest of
\* the service and the other components
limiterRest ==
    <<callers, svc, advances, calls, cache, files, prev, last,
      otherThanLimiter>>

\* current_time = time.time(); time_since_last = current_time -
\* self.last_request_time (lines 53-54)
RlBegin(t) ==
    /\ rl_pc[t] = "idle"
    /\ acquired[t] < MaxAcquires
    /\ current_time' = [current_time EXCEPT ![t] = now]
    /\ time_since_last' = [time_since_last EXCEPT ![t] = now - last_request_time]
    /\ rl_pc' = [rl_pc EXCEPT ![t] = "check"]
    /\ UNCHANGED <<now, last_request_time, wake_at, acquired, returns>>
    /\ UNCHANGED limiterRest

\* the if and the call of time.sleep(sleep_time) (lines 56-58)
RlCheck(t) ==
    /\ rl_pc[t] = "check"
    /\ IF must_sleep(time_since_last[t])
       THEN /\ wake_at' = [wake_at EXCEPT
                              ![t] = now + sleep_time(time_since_last[t])]
            /\ rl_pc' = [rl_pc EXCEPT ![t] = "sleeping"]
       ELSE /\ rl_pc' = [rl_pc EXCEPT ![t] = "store"]
            /\ UNCHANGED wake_at
    /\ UNCHANGED <<now, last_request_time, current_time, time_since_last,
                   acquired, returns>>
    /\ UNCHANGED limiterRest

\* time.sleep returns once the time asked for has passed
RlWake(t) ==
    /\ rl_pc[t] = "sleeping"
    /\ now >= wake_at[t]
    /\ rl_pc' = [rl_pc EXCEPT ![t] = "store"]
    /\ UNCHANGED <<now, last_request_time, current_time, time_since_last,
                   wake_at, acquired, returns>>
    /\ UNCHANGED limiterRest

\* self.last_request_time = time.time() and the return (line 60); the locals
\* of the call are gone (wake_at keeps the end of the thread's last sleep)
RlStore(t) ==
    /\ rl_pc[t] = "store"
    /\ last_request_time' = now
    /\ returns' = Append(returns, now)
    /\ acquired' = [acquired EXCEPT ![t] = acquired[t] + 1]
    /\ rl_pc' = [rl_pc EXCEPT ![t] = "idle"]
    /\ current_time' = [current_time EXCEPT ![t] = 0]
    /\ time_since_last' = [time_since_last EXCEPT ![t] = 0]
    /\ UNCHANGED <<now, wake_at>>
    /\ UNCHANGED limiterRest

\* the clock moves by one tick while the threads run, sleep or wait for the
\* processor
RlTick ==
    /\ now < MaxClock
    /\ now' = now + 1
    /\ UNCHANGED <<last_request_time, limiterVars>>
    /\ UNCHANGED limiterRest

InitLimiter ==
    /\ LoaderIdle
    /\ RandomIdle
    /\ BatchIdle
    /\ ReaderIdle
    /\ WriterIdle
    /\ CollectIdle
    /\ KeyIdle
    /\ DedupIdle
    /\ FallbackIdle
    /\ RetryIdle
    /\ svc = "threads"
    /\ now = min_request_interval
    /\ advances = 0
    /\ calls = 0
    /\ cache = <<>>
    /\ last_request_time = 0
    /\ files = <<>>
    /\ prev = NoOp
    /\ last = NoOp
    /\ callers \in {{"t1"}, Threads}
    /\ rl_pc = [t \in callers |-> "idle"]
    /\ current_time = [t \in callers |-> 0]
    /\ time_since_last = [t \in callers |-> 0]
    /\ wake_at = [t \in callers |-> 0]
    /\ acquired = [t \in callers |-> 0]
    /\ returns = <<>>

NextLimiter ==
    \/ \E t \in callers : RlBegin(t)
    \/ \E t \in callers : RlCheck(t)
    \/ \E t \in callers : RlWake(t)
    \/ \E t \in callers : RlStore(t)
    \/ RlTick

SpecLimiter == InitLimiter /\ [][NextLimiter]_vars

\* any two consecutive returns of _rate_limit are min_request_interval apart
ReturnsSpaced ==
    \A i \in 1..(Len(returns) - 1) :
        returns[i + 1] - returns[i] >= min_request_interval

\* C17: with a single caller, any two consecutive returns of _rate_limit are
\* at least min_request_interval apart, and each return has recorded its time
\* in last_request_time.
C17_SingleCallerSpaced ==
    Cardinality(callers) = 1
        => /\ ReturnsSpaced
           /\ (returns # <<>> /\ \A t \in callers : rl_pc[t] = "idle")
                 => last_request_time = returns[Len(returns)]

C17_Witness ==
    /\ Cardinality(callers) = 1
    /\ Len(returns) = 2
    /\ returns[1] = min_request_interval
    /\ returns[2] - returns[1] = min_request_interval
    /\ wake_at["t1"] = returns[2]

\* C18: with two or more concurrent callers no two _rate_limit calls return
\* less than min_request_interval apart.
C18_ConcurrentCallersSpaced ==
    Cardinality(callers) >= 2 => ReturnsSpaced

----------------------------------------------------------------------------
(* LocalCacheService.set running beside get *)

\* what a step of the file cache leaves alone: the memory cache of the other
\* service and the other components
writerRest == <<svc, cache, last_request_time, otherThanWriter>>

\* set(cache_key, data) up to open(cache_file, 'w') (lines 65-75): the file
\* exists and is empty
SetOpen(cache_key, data) ==
    /\ writing = NoWrite
    /\ calls < MaxCalls
    /\ writing' = [key |-> cache_key,
                   cache_data |-> [data |-> data, cached_at |-> now,
                                   cache_key |-> cache_key,
                                   ttl_seconds |-> LocalTTL(cache_key)]]
    /\ files' = Put(files, cache_key, [st_mtime |-> now, complete |-> FALSE,
                                       content |-> None])
    /\ calls' = calls + 1
    /\ UNCHANGED <<now, advances, prev, last>>
    /\ UNCHANGED writerRest

\* json.dump(cache_data, f, indent=2) and the end of the with block
\* (lines 76-79): the file holds the whole entry
SetDump ==
    /\ writing # NoWrite
    /\ files' = Put(files, writing.key, [st_mtime |-> now, complete |-> TRUE,
                                         content |-> writing.cache_data])
    /\ writing' = NoWrite
    /\ UNCHANGED <<now, advances, calls, prev, last>>
    /\ UNCHANGED writerRest

\* get(cache_key) of another caller, at any moment of the set call
ConcurrentGet(cache_key) ==
    /\ calls < MaxCalls
    /\ LET data == local_get(cache_key, FALSE)
       IN  last' = [op |-> "get", args |-> <<cache_key>>, key |-> cache_key,
                    at |-> now, had |-> cache_key \in DOMAIN files,
                    ts |-> IF cache_key \in DOMAIN files
                           THEN files[cache_key].st_mtime ELSE 0,
                    hit |-> data # None, net |-> 0, ok |-> TRUE,
                    result |-> data]
    /\ prev' = last
    /\ calls' = calls + 1
    /\ UNCHANGED <<now, advances, files, writing>>
    /\ UNCHANGED writerRest

\* the clock moves while the calls run
WriterTick ==
    /\ advances < MaxAdvances
    /\ advances' = advances + 1
    /\ now' = now + 1
    /\ UNCHANGED <<calls, files, prev, last, writing>>
    /\ UNCHANGED writerRest

InitWriter ==
    /\ LoaderIdle
    /\ RandomIdle
    /\ BatchIdle
    /\ ReaderIdle
    /\ CollectIdle
    /\ KeyIdle
    /\ DedupIdle
    /\ FallbackIdle
    /\ RetryIdle
    /\ LimiterIdle
    /\ svc = "local_threads"
    /\ now = min_request_interval
    /\ advances = 0
    /\ calls = 0
    /\ cache = <<>>
    /\ last_request_time = 0
    /\ files = <<>>
    /\ prev = NoOp
    /\ last = NoOp
    /\ writing = NoWrite

NextWriter ==
    \/ \E k \in LocalKeys, d \in Payloads : SetOpen(k, d)
    \/ SetDump
    \/ \E k \in LocalKeys : ConcurrentGet(k)
    \/ WriterTick

SpecWriter == InitWriter /\ [][NextWriter]_vars

\* C20: while set(key, ...) is writing, the file of the key holds at every
\* instant a complete entry (the previous one or the new one), so a
\* concurrent get(key) never finds a half-written entry.
C20_NoHalfWrittenEntry ==
    \A k \in DOMAIN files : files[k].complete

----------------------------------------------------------------------------
(* LocalCacheService.get running beside invalidate and clear_all *)

\* what a step of the file cache leaves alone here
readerRest == <<svc, cache, last_request_time, prev, last, otherThanReader>>

\* set(cache_key, data), as a whole; fault as in LocalSet
ReaderSet(cache_key, data, fault) ==
    /\ calls < MaxCalls
    /\ LET cache_data == [data |-> data, cached_at |-> now,
                          cache_key |-> cache_key,
                          ttl_seconds |-> LocalTTL(cache_key)]
       IN  files' =
             CASE fault = "none" ->
                    Put(files, cache_key, [st_mtime |-> now, complete |-> TRUE,
                                           content |-> cache_data])
               [] fault = "write" ->
                    Put(files, cache_key, [st_mtime |-> now, complete |-> FALSE,
                                           content |-> None])
               [] OTHER -> files
    /\ calls' = calls + 1
    /\ UNCHANGED <<now, advances, g_pc, g_key, g_result>>
    /\ UNCHANGED readerRest

\* get(cache_key) up to "if not cache_file.exists(): return False" of
\* _is_cache_valid (lines 48, 35-38)
GetExists(cache_key) ==
    /\ g_pc \in {"idle", "done", "raised"}
    /\ calls < MaxCalls
    /\ calls' = calls + 1
    /\ g_key' = cache_key
    /\ IF cache_key \in DOMAIN files
       THEN g_pc' = "stat" /\ g_result' = <<>>
       ELSE g_pc' = "done" /\ g_result' = None
    /\ UNCHANGED <<now, advances, files>>
    /\ UNCHANGED readerRest

\* cache_file.stat().st_mtime and the comparison with the TTL (lines 41-44,
\* 48-49); no try block encloses them, so the FileNotFoundError of stat()
\* leaves get
GetStat ==
    /\ g_pc = "stat"
    /\ IF g_key \notin DOMAIN files
       THEN g_pc' = "raised" /\ g_result' = <<>>
       ELSE IF now - files[g_key].st_mtime < LocalTTL(g_key) * TicksPerSecond
       THEN g_pc' = "open" /\ g_result' = <<>>
       ELSE g_pc' = "done" /\ g_result' = None
    /\ UNCHANGED <<now, advances, calls, files, g_key>>
    /\ UNCHANGED readerRest

\* open(cache_file, 'r') and json.load(f) inside the try block (lines 51-60);
\* readError: an I/O error of open() or read()
GetOpen(readError) ==
    /\ g_pc = "open"
    /\ g_pc' = "done"
    /\ g_result' =
         IF g_key \notin DOMAIN files \/ readError
         THEN None
         ELSE IF ~files[g_key].complete
         THEN None
         ELSE files[g_key].content
    /\ UNCHANGED <<now, advances, calls, files, g_key>>
    /\ UNCHANGED readerRest

\* invalidate(cache_key) of another thread (lines 84-94)
ConcurrentInvalidate(cache_key) ==
    /\ files' = IF cache_key \in DOMAIN files
                THEN Drop(files, cache_key) ELSE files
    /\ UNCHANGED <<now, advances, calls, g_pc, g_key, g_result>>
    /\ UNCHANGED readerRest

\* clear_all() of another thread (lines 96-105)
ConcurrentClearAll ==
    /\ files' = <<>>
    /\ UNCHANGED <<now, advances, calls, g_pc, g_key, g_result>>
    /\ UNCHANGED readerRest

\* the clock moves while the calls run
ReaderTick(d) ==
    /\ advances < MaxAdvances
    /\ advances' = advances + 1
    /\ now' = now + d
    /\ UNCHANGED <<calls, files, g_pc, g_key, g_result>>
    /\ UNCHANGED readerRest

InitReader ==
    /\ LoaderIdle
    /\ RandomIdle
    /\ BatchIdle
    /\ CollectIdle
    /\ KeyIdle
    /\ DedupIdle
    /\ FallbackIdle
    /\ RetryIdle
    /\ LimiterIdle
    /\ WriterIdle
    /\ ReaderIdle
    /\ svc = "local_readers"
    /\ now = min_request_interval
    /\ advances = 0
    /\ calls = 0
    /\ cache = <<>>
    /\ last_request_time = 0
    /\ files = <<>>
    /\ prev = NoOp
    /\ last = NoOp

NextReader ==
    \/ \E k \in LocalKeys, d \in Payloads, fault \in {"none", "open", "write"} :
          ReaderSet(k, d, fault)
    \/ \E k \in LocalKeys : GetExists(k)
    \/ GetStat
    \/ \E readError \in BOOLEAN : GetOpen(readError)
    \/ \E k \in LocalKeys : ConcurrentInvalidate(k)
    \/ ConcurrentClearAll
    \/ \E d \in TickSteps : ReaderTick(d)

SpecReader == InitReader /\ [][NextReader]_vars

\* C21: LocalCacheService.get never propagates an error to its caller: a
\* missing file, corrupt JSON, an I/O error, and a file removed by a
\* concurrent invalidate or clear_all all end in a miss (None).
C21_GetNeverRaises ==
    g_pc # "raised"

----------------------------------------------------------------------------
(* The two cache services in one process: the geographic searches of
   EnhancedAPIService beside the files of LocalCacheService *)

Cities == {"seoul", "austin"}

\* the fingerprint of search_by_city(city, limit)
city_params(city, limit) ==
    << <<"by_city", StrVal(city)>>, <<"per_page", IntVal(Min(limit, 50))>> >>
CityKeys == {get_cache_key("", city_params(c, l)) : c \in Cities, l \in Limits}

\* search_by_city(city, limit): _make_request('', params)
search_by_city(city, limit, net) ==
    /\ svc = "tiers"
    /\ calls < MaxCalls
    /\ LET r == make_request("", city_params(city, limit), net)
       IN  /\ cache' = r.cache
           /\ now' = r.now
           /\ last_request_time' = r.lrt
           /\ last' = [op |-> "search_by_city", args |-> <<city, limit>>,
                       key |-> r.key, at |-> now, had |-> r.had, ts |-> r.ts,
                       hit |-> r.hit, net |-> r.net, ok |-> r.ok,
                       result |-> r.result]
    /\ prev' = last
    /\ calls' = calls + 1
    /\ UNCHANGED <<svc, advances, files>>
    /\ UNCHANGED otherThanCache

\* local_cache.set(cache_key, data) by a caller that keeps responses in the
\* file cache under their fingerprint
TiersSet(cache_key, data) ==
    /\ svc = "tiers"
    /\ calls < MaxCalls
    /\ files' = Put(files, cache_key,
                    [st_mtime |-> now, complete |-> TRUE,
                     content |-> [data |-> data, cached_at |-> now,
                                  cache_key |-> cache_key,
                                  ttl_seconds |-> LocalTTL(cache_key)]])
    /\ last' = [NoOp EXCEPT !.op = "set", !.args = <<cache_key>>,
                            !.key = cache_key, !.at = now, !.ok = TRUE]
    /\ prev' = last
    /\ calls' = calls + 1
    /\ UNCHANGED <<svc, now, advances, cache, last_request_time>>
    /\ UNCHANGED otherThanCache

\* the clock moves by one tick, or to one tick before cache_ttl has elapsed
TiersTick(d) ==
    /\ svc = "tiers"
    /\ advances < MaxAdvances
    /\ calls < MaxCalls
    /\ advances' = advances + 1
    /\ now' = now + d
    /\ UNCHANGED <<svc, calls, cache, last_request_time, files, prev, last>>
    /\ UNCHANGED otherThanCache

InitTiers ==
    /\ LoaderIdle
    /\ RandomIdle
    /\ BatchIdle
    /\ CollectIdle
    /\ KeyIdle
    /\ DedupIdle
    /\ FallbackIdle
    /\ RetryIdle
    /\ LimiterIdle
    /\ WriterIdle
    /\ ReaderIdle
    /\ svc = "tiers"
    /\ now = min_request_interval
    /\ advances = 0
    /\ calls = 0
    /\ cache = <<>>
    /\ last_request_time = 0
    /\ files = <<>>
    /\ prev = NoOp
    /\ last = NoOp

NextTiers ==
    \/ \E d \in {1, cache_ttl * TicksPerSecond - 1} : TiersTick(d)
    \/ \E c \in Cities, l \in Limits, net \in NetOutcomes :
          search_by_city(c, l, net)
    \/ \E k \in CityKeys, d \in Payloads : TiersSet(k, d)

SpecTiers == InitTiers /\ [][NextTiers]_vars

\* the file tier holds a valid entry for cache_key at time t
FileTierValid(cache_key, t) ==
    /\ cache_key \in DOMAIN files
    /\ files[cache_key].complete
    /\ t - files[cache_key].st_mtime < LocalTTL(cache_key) * TicksPerSecond

\* C22: when the memory tier misses or holds an expired entry, the lookup
\* consults the file tier before any network fetch: a valid file-tier entry
\* is returned without a network call and copied into the memory tier.
C22_FileTierBeforeNetwork ==
    (/\ last.op = "search_by_city"
     /\ ~last.hit
     /\ FileTierValid(last.key, last.at))
        => /\ last.net = 0
           /\ last.result = files[last.key].content.data
           /\ last.key \in DOMAIN cache
           /\ cache[last.key].data = last.result

\* seconds a geographic query stays valid (spec: 2 hours; the value
\* local_cache_service.py configures for 'geographic_data')
geographic_ttl == LocalTTL("geographic_data")

\* C23: entry validity is decided with the TTL of the entry's namespace, not
\* one global constant: an entry of a geographic query (search_by_city) is
\* valid for 2 hours.
C23_GeographicEntryTwoHours ==
    (last.op = "search_by_city" /\ last.had)
        => (last.hit <=> last.at - last.ts < geographic_ttl * TicksPerSecond)

----------------------------------------------------------------------------
(* LocalCacheService after initialize_cache() *)

\* the fallback data initialize_cache() stores
fallback_data == <<"b1">>

\* the files after initialize_cache() ran at time t (lines 153-180)
initialize_cache(t) ==
    [k \in LocalKeys |->
        [st_mtime |-> t, complete |-> TRUE,
         content |-> [data |-> fallback_data, cached_at |-> t,
                      cache_key |-> k, ttl_seconds |-> LocalTTL(k)]]]

InitWarm ==
    /\ LoaderIdle
    /\ RandomIdle
    /\ BatchIdle
    /\ CollectIdle
    /\ KeyIdle
    /\ DedupIdle
    /\ FallbackIdle
    /\ RetryIdle
    /\ LimiterIdle
    /\ WriterIdle
    /\ ReaderIdle
    /\ svc = "local"
    /\ now = min_request_interval
    /\ advances = 0
    /\ calls = 0
    /\ cache = <<>>
    /\ last_request_time = 0
    /\ files = initialize_cache(min_request_interval)
    /\ prev = NoOp
    /\ last = NoOp

NextWarm ==
    \/ \E d \in TickSteps : Tick(d)
    \/ \E k \in LocalKeys, readError \in BOOLEAN : LocalGet(k, readError)
    \/ \E k \in LocalKeys, d \in Payloads, fault \in {"none", "open", "write"} :
          LocalSet(k, d, fault)
    \/ \E k \in LocalKeys : LocalInvalidate(k)
    \/ LocalClearAll

SpecWarm == InitWarm /\ [][NextWarm]_vars

----------------------------------------------------------------------------
(* The adapters that normalize raw records *)

(* Bounds *)

\* raw records in one batch
MaxBatch == 2

\* Raw records of the Punk API. object: the element is a JSON object;
\* has_id: it has the key 'id'; ingredients_null: its 'ingredients' is null.
RawBeers ==
    {[kind |-> "beer", object |-> TRUE, has_id |-> TRUE, id |-> 1,
      name |-> "Punk IPA", ingredients_null |-> FALSE,
      yeast |-> "Wyeast 1056 - American Ale"],
     [kind |-> "beer", object |-> TRUE, has_id |-> TRUE, id |-> 2,
      name |-> "Mystery Brew", ingredients_null |-> FALSE, yeast |-> ""],
     [kind |-> "beer", object |-> TRUE, has_id |-> TRUE, id |-> 3,
      name |-> "Broken", ingredients_null |-> TRUE, yeast |-> ""],
     [kind |-> "beer", object |-> TRUE, has_id |-> FALSE, id |-> 0,
      name |-> "Nameless", ingredients_null |-> FALSE, yeast |-> ""],
     [kind |-> "beer", object |-> FALSE, has_id |-> FALSE, id |-> 0,
      name |-> "", ingredients_null |-> FALSE, yeast |-> ""]}

\* Raw records of Open Brewery DB. has_type: the record has the key
\* 'brewery_type'; brewery_type: brewery.get('brewery_type', 'unknown');
\* id: the text f"{brewery.get('id')}" gives
RawBreweries ==
    {[kind |-> "brewery", object |-> TRUE, has_id |-> TRUE, id |-> "b1",
      name |-> "Stone", ingredients_null |-> FALSE, has_type |-> TRUE,
      brewery_type |-> "micro"],
     [kind |-> "brewery", object |-> TRUE, has_id |-> TRUE, id |-> "b2",
      name |-> "Odd", ingredients_null |-> FALSE, has_type |-> FALSE,
      brewery_type |-> "unknown"],
     [kind |-> "brewery", object |-> TRUE, has_id |-> FALSE, id |-> "None",
      name |-> "Anon", ingredients_null |-> FALSE, has_type |-> TRUE,
      brewery_type |-> "regional"],
     [kind |-> "brewery", object |-> FALSE, has_id |-> FALSE, id |-> "None",
      name |-> "", ingredients_null |-> FALSE, has_type |-> FALSE,
      brewery_type |-> "unknown"]}

PunkAdapters == {"beer_transformer", "multi_punk"}
BreweryAdapters == {"multi_openbrewery", "full_loader", "south_korea"}

\* BeerTransformer._classify_by_yeast: the yeast_patterns searched in
\* yeast_name
classify_by_yeast(yeast_name) ==
    CASE yeast_name = "wyeast 1056 - american ale" -> "ale"
      [] yeast_name = "saflager w-34/70" -> "lager"
      [] OTHER -> "unknown"

\* BeerTransformer._classify_by_style: the style_patterns searched in name,
\* tagline and description; 'other' when none matches
classify_by_style(name) ==
    CASE name = "Punk IPA" -> "ale"
      [] name = "Pilsen Lager" -> "lager"
      [] OTHER -> "other"

\* BeerTransformer._categorize_beer
categorize_beer(beer) ==
    IF classify_by_yeast(YeastName(beer.yeast)) = "unknown"
    THEN classify_by_style(beer.name)
    ELSE classify_by_yeast(YeastName(beer.yeast))

\* beer.get('id'): None when the record has no id
get_id(beer) == IF beer.has_id THEN IntVal(beer.id) ELSE None

\* BeerTransformer._transform_single_beer(beer): it raises AttributeError
\* for an element that is no object or whose 'ingredients' is null
transform_single_beer(beer) ==
    IF ~beer.object \/ beer.ingredients_null
    THEN [raised |-> TRUE, rec |-> <<>>]
    ELSE [raised |-> FALSE,
          rec |-> [beer_id |-> get_id(beer),
                   name |-> beer.name,
                   category |-> categorize_beer(beer),
                   subcategory |-> None,
                   data_source |-> ""]]

\* MultiAPIExtractor._transform_punk_beer(beer): it raises AttributeError
\* for an element that is no object or whose 'ingredients' is null
multi_transform_punk_beer(beer) ==
    IF ~beer.object \/ beer.ingredients_null
    THEN [raised |-> TRUE, rec |-> <<>>]
    ELSE [raised |-> FALSE,
          rec |-> [transform_punk_beer(beer) EXCEPT !.beer_id = get_id(beer)]]

\* MultiAPIExtractor._transform_brewery_to_beer(brewery)
multi_transform_brewery_to_beer(brewery) ==
    IF ~brewery.object
    THEN [raised |-> TRUE, rec |-> <<>>]
    ELSE [raised |-> FALSE, rec |-> transform_brewery_to_beer(brewery)]

\* FullDatasetLoader.transform_brewery_to_beer: category_mapping
full_category_mapping(brewery_type) ==
    CASE brewery_type \in {"micro", "nano", "brewpub", "taproom"} -> "ale"
      [] brewery_type \in {"regional", "large", "beergarden"} -> "lager"
      [] OTHER -> "other"

\* FullDatasetLoader.transform_brewery_to_beer(brewery)
full_transform_brewery_to_beer(brewery) ==
    IF ~brewery.object
    THEN [raised |-> TRUE, rec |-> <<>>]
    ELSE [raised |-> FALSE,
          rec |-> [beer_id |-> StrVal("brewery_" \o brewery.id),
                   name |-> brewery.name \o " House Beer",
                   category |-> full_category_mapping(brewery.brewery_type),
                   subcategory |-> brewery.brewery_type,
                   data_source |-> ""]]

\* load_south_korea.py: category_mapping.get(brewery_type, 'ale')
korea_category_mapping(brewery_type) ==
    CASE brewery_type \in {"micro", "brewpub"} -> "ale"
      [] brewery_type \in {"regional", "large"} -> "lager"
      [] brewery_type \in {"planning", "closed", "contract", "proprietor"}
            -> "other"
      [] OTHER -> "ale"

\* load_south_korea.py: the body of "for brewery in korean_breweries"
korea_beer_record(brewery) ==
    IF ~brewery.object
    THEN [raised |-> TRUE, rec |-> <<>>]
    ELSE [raised |-> FALSE,
          rec |-> [beer_id |-> StrVal("brewery_" \o brewery.id),
                   name |-> brewery.name \o " House Beer",
                   category |-> korea_category_mapping(brewery.brewery_type),
                   subcategory |-> brewery.brewery_type,
                   data_source |-> ""]]

\* the transform of one record by an adapter
transform_one(adapter, r) ==
    CASE adapter = "beer_transformer" -> transform_single_beer(r)
      [] adapter = "multi_punk" -> multi_transform_punk_beer(r)
      [] adapter = "multi_openbrewery" -> multi_transform_brewery_to_beer(r)
      [] adapter = "full_loader" -> full_transform_brewery_to_beer(r)
      [] OTHER -> korea_beer_record(r)

\* "for beer in raw_beers: try: ... except Exception as e:
\* self.logger.warning(f"... {beer.get('id', 'unknown')}: {e}")" of
\* transform_beer_data (lines 89-94): a record whose transform raises is
\* skipped; the warning itself raises for an element that is no object
RECURSIVE transform_beer_data(_)
transform_beer_data(raw_beers) ==
    IF raw_beers = <<>>
    THEN [raised |-> FALSE, data |-> <<>>]
    ELSE LET one == transform_single_beer(Head(raw_beers))
             rest == transform_beer_data(Tail(raw_beers))
         IN  IF one.raised /\ ~Head(raw_beers).object
             THEN [raised |-> TRUE, data |-> <<>>]
             ELSE IF one.raised
             THEN rest
             ELSE [raised |-> rest.raised,
                   data |-> IF rest.raised THEN <<>>
                            ELSE <<one.rec>> \o rest.data]

\* a loop that appends the transform of every record and has no try block of
\* its own: the first transform that raises ends it
RECURSIVE transform_all(_, _)
transform_all(adapter, raw) ==
    IF raw = <<>>
    THEN [raised |-> FALSE, data |-> <<>>]
    ELSE LET one == transform_one(adapter, Head(raw))
             rest == transform_all(adapter, Tail(raw))
         IN  IF one.raised \/ rest.raised
             THEN [raised |-> TRUE, data |-> <<>>]
             ELSE [raised |-> FALSE, data |-> <<one.rec>> \o rest.data]

\* the try block around the whole loop of extract_punk_api_data and
\* extract_openbrewery_data (lines 62-82, 86-110) and of load_south_korea.py
\* (lines 50-173): any exception ends the batch with no record
batch_in_try(adapter, raw) ==
    IF transform_all(adapter, raw).raised
    THEN [raised |-> FALSE, data |-> <<>>]
    ELSE transform_all(adapter, raw)

\* what an adapter makes of a batch
normalize_batch(adapter, raw) ==
    CASE adapter = "beer_transformer" -> transform_beer_data(raw)
      [] adapter = "full_loader" -> transform_all(adapter, raw)
      [] OTHER -> batch_in_try(adapter, raw)

NormalizeBatch ==
    /\ b_pc = "idle"
    /\ b_pc' = IF normalize_batch(b_adapter, b_raw).raised
               THEN "raised" ELSE "done"
    /\ b_out' = normalize_batch(b_adapter, b_raw).data
    /\ UNCHANGED <<b_adapter, b_raw>>
    /\ UNCHANGED otherThanBatch

InitBatch ==
    /\ LoaderIdle
    /\ RandomIdle
    /\ CollectIdle
    /\ KeyIdle
    /\ CacheIdle
    /\ DedupIdle
    /\ FallbackIdle
    /\ RetryIdle
    /\ LimiterIdle
    /\ WriterIdle
    /\ ReaderIdle
    /\ b_adapter \in PunkAdapters \cup BreweryAdapters
    /\ b_raw \in UNION {[1..n -> IF b_adapter \in PunkAdapters
                                 THEN RawBeers ELSE RawBreweries] :
                           n \in 0..MaxBatch}
    /\ b_pc = "idle"
    /\ b_out = <<>>

NextBatch == NormalizeBatch

SpecBatch == InitBatch /\ [][NextBatch]_vars

\* a malformed record: an element that is no object, or one whose nested
\* 'ingredients' object is null
Malformed(r) == ~r.object \/ r.ingredients_null

\* the normalized records of the well-formed records of a batch, in order
WellFormedNormalized(adapter, raw) ==
    LET good == SelectSeq(raw, LAMBDA r : ~Malformed(r))
    IN  [i \in DOMAIN good |-> transform_one(adapter, good[i]).rec]

\* C27: within a batch, one malformed record is skipped alone and every
\* well-formed record of the batch is still normalized and returned in
\* order, in BeerTransformer.transform_beer_data and in
\* MultiAPIExtractor.extract_punk_api_data / extract_openbrewery_data.
C27_MalformedSkippedAlone ==
    (/\ b_pc # "idle"
     /\ b_adapter \in {"beer_transformer", "multi_punk", "multi_openbrewery"}
     /\ Cardinality({i \in DOMAIN b_raw : Malformed(b_raw[i])}) = 1)
        => /\ b_pc = "done"
           /\ b_out = WellFormedNormalized(b_adapter, b_raw)

\* the source record cannot be classified: no yeast and no style pattern
\* matches, or the brewery has no brewery_type
Unclassifiable(r) ==
    IF r.kind = "beer"
    THEN /\ classify_by_yeast(YeastName(r.yeast)) = "unknown"
         /\ YeastCategory(YeastName(r.yeast)) = "other"
         /\ r.name \notin {"Punk IPA", "Pilsen Lager"}
    ELSE ~r.has_type

\* C28: every normalized record emitted by any adapter has an identity and a
\* category, and the category is 'other' whenever the source record cannot
\* be classified.
C28_IdentityAndCategory ==
    (b_pc = "done" /\ Len(b_out) = Len(b_raw))
        => \A i \in DOMAIN b_out :
              /\ b_out[i].beer_id # None
              /\ b_out[i].category \in {"ale", "lager", "other"}
              /\ Unclassifiable(b_raw[i]) => b_out[i].category = "other"

----------------------------------------------------------------------------
(* The callers of the upstream /random endpoint, and health_check *)

(* Bounds *)

\* calls of health_check, and of a caller that keeps no cache
MaxRandom == 2

\* brewery_discovery calls get_random_brewery this many times
discovery_calls == 5

\* A JSON value: an object (t = "dict") that stands for the brewery v, the
\* empty object being the one with v = ""; or an array (t = "list") of the
\* breweries in items.
JsonDict(b) == [t |-> "dict", v |-> b, items |-> <<>>]
JsonList(items) == [t |-> "list", v |-> "", items |-> items]

RandomBreweries == {"b1", "b2"}

\* what the upstream answers to GET /random: a single object, an array of one
\* object, an empty array, or a failure (request error, non-2xx, invalid JSON)
RandomAnswers ==
    {[ok |-> TRUE, data |-> JsonDict(b)] : b \in RandomBreweries}
        \cup {[ok |-> TRUE, data |-> JsonList(<<b>>)] : b \in RandomBreweries}
        \cup {[ok |-> TRUE, data |-> JsonList(<<>>)],
              [ok |-> FALSE, data |-> JsonList(<<>>)]}

\* what the upstream answers to GET /meta
MetaAnswers ==
    {[ok |-> TRUE, data |-> JsonDict("meta")],
     [ok |-> FALSE, data |-> JsonList(<<>>)]}

\* the brewery an answer carries, "" if none
brewery_of(json) ==
    IF json.t = "dict" THEN json.v
    ELSE IF Len(json.items) > 0 THEN json.items[1] ELSE ""

\* what _make_request returned, as a JSON value: `return []` on a failure
returned_json(r) == IF r.ok THEN r.result ELSE JsonList(<<>>)

\* EnhancedAPIService.get_random_brewery, after result = _make_request(...)
get_random_brewery(result) ==
    IF result.t = "list" /\ Len(result.items) > 0
    THEN JsonDict(result.items[1])
    ELSE IF result.t = "dict" THEN result
    ELSE JsonDict("")

\* the record of one call in rnd_log
RandomCall(op, r, net, got) ==
    [op |-> op, at |-> now, done |-> r.now, net |-> r.net, ok |-> r.ok,
     shape |-> IF r.net = 1 /\ r.ok THEN net.data.t ELSE "none",
     sent |-> IF r.net = 1 /\ r.ok THEN brewery_of(net.data) ELSE "",
     got |-> got]

\* one get_random_brewery() call of the discovery loop (rnd_caller =
\* "enhanced"; "health" is the same service asked for health_check only)
EnhancedRandom(net) ==
    /\ rnd_caller = "enhanced"
    /\ Len(rnd_log) < discovery_calls
    /\ LET r == make_request("/random", <<>>, net)
       IN  /\ cache' = r.cache
           /\ now' = r.now
           /\ last_request_time' = r.lrt
           /\ rnd_log' = Append(rnd_log,
                  RandomCall("random", r, net,
                             get_random_brewery(returned_json(r))))
    /\ UNCHANGED <<svc, advances, calls, files, prev, last, rnd_caller>>
    /\ UNCHANGED otherThanRandom

\* get_metadata() raises inside health_check's try: never, since
\* _make_request catches RequestException and JSONDecodeError itself and
\* returns [], which get_metadata turns into {}; health_check does not look
\* at the value
get_metadata_raises(r) == FALSE

\* EnhancedAPIService.health_check: the try branch and the except branch
health_report(raised) ==
    IF raised THEN [status |-> "unhealthy", api_accessible |-> FALSE]
    ELSE [status |-> "healthy", api_accessible |-> TRUE]

health_check(net) ==
    /\ rnd_caller = "health"
    /\ Len(rnd_log) < MaxRandom
    /\ LET r == make_request("/meta", <<>>, net)
       IN  /\ cache' = r.cache
           /\ now' = r.now
           /\ last_request_time' = r.lrt
           /\ rnd_log' = Append(rnd_log,
                  RandomCall("health", r, net,
                             health_report(get_metadata_raises(r))))
    /\ UNCHANGED <<svc, advances, calls, files, prev, last, rnd_caller>>
    /\ UNCHANGED otherThanRandom

\* the clock moves between two calls
RandomTick(d) ==
    /\ rnd_caller \in {"enhanced", "health"}
    /\ advances < MaxAdvances
    /\ Len(rnd_log) < (IF rnd_caller = "enhanced" THEN discovery_calls
                       ELSE MaxRandom)
    /\ advances' = advances + 1
    /\ now' = now + d
    /\ UNCHANGED <<svc, calls, cache, last_request_time, files, prev, last>>
    /\ UNCHANGED randomVars
    /\ UNCHANGED otherThanRandom

\* IntegratedBreweryPlatform._parse_brewery_data
parse_brewery_data(b) == [id |-> b]

\* IntegratedBreweryPlatform.get_random_brewery: no cache, one GET
integrated_get_random_brewery(net) ==
    IF net.ok
    THEN IF net.data.t = "list" /\ Len(net.data.items) > 0
         THEN parse_brewery_data(net.data.items[1])
         ELSE IF net.data.t = "dict" THEN parse_brewery_data(net.data.v)
         ELSE None
    ELSE None

\* the call as _make_request's record: one request, no cache
Uncached(net) == [now |-> now, net |-> 1, ok |-> net.ok]

IntegratedRandom(net) ==
    /\ rnd_caller = "integrated"
    /\ Len(rnd_log) < MaxRandom
    /\ rnd_log' = Append(rnd_log,
           RandomCall("random", Uncached(net), net,
                      integrated_get_random_brewery(net)))
    /\ UNCHANGED <<cacheVars, rnd_caller>>
    /\ UNCHANGED otherThanRandom

\* `if data:` of Python: a non-empty object or array
truthy(json) == json.t = "dict" \/ Len(json.items) > 0

\* One iteration of PunkAPIExtractor._extract_random_beers_async: the beers
\* it appends. data[0] of an object raises KeyError, which the except
\* branch of the iteration catches.
extract_random_beers_step(net) ==
    IF net.ok /\ truthy(net.data)
    THEN IF net.data.t = "list" THEN <<net.data.items[1]>> ELSE <<>>
    ELSE <<>>

PunkRandom(net) ==
    /\ rnd_caller = "punk"
    /\ Len(rnd_log) < MaxRandom
    /\ rnd_log' = Append(rnd_log,
           RandomCall("random", Uncached(net), net,
                      extract_random_beers_step(net)))
    /\ UNCHANGED <<cacheVars, rnd_caller>>
    /\ UNCHANGED otherThanRandom

InitRandom ==
    /\ LoaderIdle
    /\ CollectIdle
    /\ KeyIdle
    /\ DedupIdle
    /\ FallbackIdle
    /\ RetryIdle
    /\ LimiterIdle
    /\ WriterIdle
    /\ ReaderIdle
    /\ BatchIdle
    /\ svc = "random"
    /\ now = min_request_interval
    /\ advances = 0
    /\ calls = 0
    /\ cache = <<>>
    /\ last_request_time = 0
    /\ files = <<>>
    /\ prev = NoOp
    /\ last = NoOp
    /\ rnd_caller \in {"enhanced", "health", "integrated", "punk"}
    /\ rnd_log = <<>>

NextRandom ==
    \/ \E net \in RandomAnswers : EnhancedRandom(net)
    \/ \E net \in MetaAnswers : health_check(net)
    \/ \E d \in {1, cache_ttl * TicksPerSecond - 1} : RandomTick(d)
    \/ \E net \in RandomAnswers : IntegratedRandom(net)
    \/ \E net \in RandomAnswers : PunkRandom(net)

SpecRandom == InitRandom /\ [][NextRandom]_vars

\* the brewery or beer object as the caller hands it on
Returned(caller, b) ==
    IF caller = "enhanced" THEN JsonDict(b)
    ELSE IF caller = "integrated" THEN parse_brewery_data(b)
    ELSE <<b>>

\* C31: whichever shape the upstream answers /random with, a single object
\* or an array holding one object, the caller returns that object.
C31_BothShapesReturnTheObject ==
    \A i \in DOMAIN rnd_log :
        LET e == rnd_log[i]
        IN  (e.op = "random" /\ e.shape \in {"dict", "list"} /\ e.sent # "")
                => e.got = Returned(rnd_caller, e.sent)

\* C39: health_check reports 'unhealthy' with api_accessible False whenever
\* the upstream metadata request fails, and 'healthy' only when the upstream
\* answered.
C39_HealthReflectsUpstream ==
    \A i \in DOMAIN rnd_log :
        LET e == rnd_log[i]
        IN  e.op = "health"
                => /\ (e.net = 1 /\ ~e.ok)
                         => e.got = [status |-> "unhealthy",
                                     api_accessible |-> FALSE]
                   /\ e.got.status = "healthy" => e.ok

----------------------------------------------------------------------------
(* BigQueryLoader.load_to_bigquery *)

(* Bounds *)

\* load_to_bigquery calls in one behaviour
MaxRuns == 3

\* The step of a run that raises, if any: blob.upload_from_string, the
\* dataset and table creation, the load job of the staging table, a merge
\* query, or blob.delete.
LoadFailures == {"none", "upload", "tables", "load", "merge", "cleanup"}

\* _cleanup_staging_data(staging_file): blob.delete() inside try/except; a
\* delete that raises is logged and the file stays
cleanup_staging_data(bucket, staging_file, fail) ==
    IF fail = "cleanup" THEN bucket ELSE bucket \ {staging_file}

\* load_to_bigquery(beer_data) as run number n, for a batch of `batch`
\* records: the steps run in sequence with no try around them, so the step
\* that raises ends the call and the steps after it do not run
load_to_bigquery(n, batch, fail) ==
    LET same == [bucket |-> bq_bucket, tables |-> bq_tables,
                 staged |-> bq_staged, merged |-> bq_merged,
                 uploaded |-> FALSE, outcome |-> "returned"]
        up == [same EXCEPT !.bucket = bq_bucket \cup {n}, !.uploaded = TRUE]
    IN  IF batch = 0 THEN same
        ELSE IF fail = "upload" THEN [same EXCEPT !.outcome = "raised"]
        ELSE IF fail = "tables" THEN [up EXCEPT !.outcome = "raised"]
        ELSE IF fail = "load"
        THEN [up EXCEPT !.tables = TRUE, !.outcome = "raised"]
        ELSE IF fail = "merge"
        THEN [up EXCEPT !.tables = TRUE, !.staged = n, !.outcome = "raised"]
        ELSE [up EXCEPT !.tables = TRUE, !.staged = n,
                        !.merged = bq_merged \cup {n},
                        !.bucket = cleanup_staging_data(up.bucket, n, fail)]

LoadToBigquery(batch, fail) ==
    /\ bq_runs < MaxRuns
    /\ bq_runs' = bq_runs + 1
    /\ LET r == load_to_bigquery(bq_runs + 1, batch, fail)
       IN  /\ bq_bucket' = r.bucket
           /\ bq_tables' = r.tables
           /\ bq_staged' = r.staged
           /\ bq_merged' = r.merged
           /\ bq_last' = [batch |-> batch, fail |-> fail,
                          uploaded |-> r.uploaded, outcome |-> r.outcome]
    /\ UNCHANGED otherThanLoader

InitLoader ==
    /\ CollectIdle
    /\ KeyIdle
    /\ CacheIdle
    /\ DedupIdle
    /\ FallbackIdle
    /\ RetryIdle
    /\ LimiterIdle
    /\ WriterIdle
    /\ ReaderIdle
    /\ BatchIdle
    /\ RandomIdle
    /\ bq_runs = 0
    /\ bq_bucket = {}
    /\ bq_tables = FALSE
    /\ bq_staged = 0
    /\ bq_merged = {}
    /\ bq_last = NoLoad

NextLoader ==
    \E batch \in 0..MaxBatch, fail \in LoadFailures :
        LoadToBigquery(batch, fail)

SpecLoader == InitLoader /\ [][NextLoader]_vars

\* C38: load_to_bigquery removes the staging file it uploaded to Cloud
\* Storage on every outcome of the run, also when table creation, the load of
\* the staging table or a merge query raises; with an empty batch it uploads
\* nothing and touches no table.
C38_StagingFileAlwaysRemoved ==
    /\ (bq_last.uploaded /\ bq_last.fail # "cleanup")
          => bq_runs \notin bq_bucket
    /\ (bq_runs = 1 /\ bq_last.batch = 0 /\ bq_last.outcome # "none")
          => (bq_bucket = {} /\ ~bq_tables /\ bq_staged = 0 /\ bq_merged = {})

====
